---- MODULE Spec2Model ----
(***************************************************************************)
(* The transactional commit graph store of pfsdb (commits + ancestry).     *)
(*                                                                         *)
(* The state is what a transaction sees of the two tables pfs.commits and  *)
(* pfs.commit_ancestry.  Every public operation is translated statement by *)
(* statement.  A statement the database rejects (a constraint violation, a *)
(* syntax error) aborts the transaction; the caller can then only roll     *)
(* back, so the tables are restored as they were before the call.  An      *)
(* error the Go code raises itself (CommitAlreadyExists, CommitNotFound,   *)
(* ...) does not abort: the tables stay exactly as the code left them.     *)
(*                                                                         *)
(* Spec        create, link and delete calls in one transaction            *)
(* SpecUpdate  the targeted updates, on the rows of a parent and its child *)
(* SpecConc    CreateCommit in two concurrent transactions                 *)
(* SpecWalk    one ancestry walk over a graph built by CreateCommit calls  *)
(* SpecWalkAny one ancestry walk with a callback that may fail, over a     *)
(*             chain that may be closed to a cycle                         *)
(* SpecGet     one lookup of a commit, with queries that may fail          *)
(* SpecCreate  one CreateCommit call with any CommitInfo                   *)
(* SpecPick    one PickCommit call over forests and over a long chain      *)
(* SpecIter    one listing or iteration of the commits of a filter, page   *)
(*             by page, alone in a transaction or beside others            *)
(* SpecWatch   one watcher, its snapshot and its events, beside the        *)
(*             transactions of others                                      *)
(*                                                                         *)
(* Two packages beside pfsdb have a section and a specification each:      *)
(*                                                                         *)
(* SpecSample  Check calls of two goroutines on one sampling log core      *)
(* SpecDump    successive ReadRows calls on one pg_dump file               *)
(***************************************************************************)
EXTENDS Integers, Sequences, FiniteSets, TLC

VARIABLES
    commits,    \* pfs.commits: a set of rows
    ancestry,   \* pfs.commit_ancestry: a set of <<parent, child>>
    nextId,     \* next value of the int_id sequence of pfs.commits
    ret,        \* the last call and what it returned
    created,    \* history: per key, the committed CreateCommit calls that made it
    tx,         \* the CreateCommit calls in flight in concurrent transactions
    walk        \* the call in progress (a walk, an iteration, a watcher) and its callbacks;
                \* the sampler and the pg_dump reader of the last two sections

vars == <<commits, ancestry, nextId, ret, created, tx, walk>>

---------------------------------------------------------------------------
(* Bounds of the model *)

\* the int_id sequence hands out 1..MaxCommitId
MaxCommitId == 3

\* the commits of the graphs that are walked
MaxChain == 4

---------------------------------------------------------------------------
(* Values *)

\* SQL NULL in an int column; CommitID(0) is Go's zero value, never a row.
Null == -1
NoID == 0

NoErr == "nil"

CommitIDs == 1..MaxCommitId

\* pfs.repos holds a single repo; other tables are collaborators.
RepoRows == {[id |-> 1, project |-> "default", name |-> "data", type |-> "user"]}

\* pfs.branches, likewise
BranchRows == {[id |-> 1, name |-> "master", repo_id |-> 1]}

CommitSetIDs == {"c1", "c2", "c3"}

\* *pfs.Commit.  ptr = FALSE is the nil pointer, hasRepo = FALSE is Repo == nil.
Handle(project, name, type, id) ==
    [ptr |-> TRUE, hasRepo |-> TRUE, project |-> project, name |-> name,
     type |-> type, id |-> id, branch |-> ""]

NilCommit ==
    [ptr |-> FALSE, hasRepo |-> FALSE, project |-> "", name |-> "",
     type |-> "", id |-> "", branch |-> ""]

NoRepoCommit ==
    [ptr |-> TRUE, hasRepo |-> FALSE, project |-> "", name |-> "",
     type |-> "", id |-> "c1", branch |-> ""]

\* a commit of a repo that pfs.repos does not hold
GhostCommit == Handle("default", "ghost", "user", "c1")

DataCommits == {Handle("default", "data", "user", i) : i \in CommitSetIDs}

\* "<project>/<repo>.<type>@<commit-set-id>"
CommitKey(commit) ==
    commit.project \o "/" \o commit.name \o "." \o commit.type \o "@" \o commit.id

\* SELECT id from pfs.repos WHERE name=$1 AND type=$2 AND project_id=(...)
SelectRepoID(commit) ==
    LET hit == {r.id : r \in {q \in RepoRows : /\ q.project = commit.project
                                               /\ q.name = commit.name
                                               /\ q.type = commit.type}}
    IN  IF hit = {} THEN Null ELSE CHOOSE i \in hit : TRUE

\* SELECT id from pfs.branches WHERE name=$6 AND repo_id=(...); a nil Branch
\* is bound as NULL and matches no row.
SelectBranchID(commit) ==
    LET hit == {b.id : b \in {q \in BranchRows : /\ commit.branch # ""
                                                 /\ q.name = commit.branch
                                                 /\ q.repo_id = SelectRepoID(commit)}}
    IN  IF hit = {} THEN Null ELSE CHOOSE i \in hit : TRUE

RepoExists(commit) == SelectRepoID(commit) # Null

\* The tables as a transaction sees them.  faults names the queries that the
\* database fails for a reason of its own (a cancelled context, a lost
\* connection): "row", "parent", "children".
DB(c, a, n) ==
    [commits |-> c, ancestry |-> a, nextId |-> n, faults |-> {}, head |-> NilCommit]

\* pfs.branches.head of the branch master is a collaborator's column
WithHead(db, head) == [db EXCEPT !.head = head]

Faulty(db, faults) == [db EXCEPT !.faults = faults]

\* the error of a query that the database failed
DBFailed == "db:failed"

RowIDs(rows) == {r.int_id : r \in rows}

---------------------------------------------------------------------------
(* The schema of the two tables, and the statements run against it *)

\* commits without the unique index on commit_id
CommitIDNotUnique(rows) == TRUE

\* commits.commit_id UNIQUE
CommitIDUnique(rows) ==
    \A r1 \in rows, r2 \in rows : r1.commit_id = r2.commit_id => r1 = r2

\* commit_ancestry with PRIMARY KEY (parent, child) only: child not UNIQUE
AncestryConflictPairOnly(anc, edge) ==
    \E e \in anc : e = edge

\* commit_ancestry: PRIMARY KEY (parent, child), child UNIQUE.  A proposed
\* edge conflicts when a row with the same child is already there.
AncestryConflict(anc, edge) ==
    \E e \in anc : e = edge \/ e[2] = edge[2]

\* commit_ancestry with a foreign key on parent only
AncestryFKParentOnly(rows, anc) ==
    \A e \in anc : e[1] \in RowIDs(rows)

\* commit_ancestry.parent and .child REFERENCES commits(int_id)
AncestryFKHolds(rows, anc) ==
    \A e \in anc : e[1] \in RowIDs(rows) /\ e[2] \in RowIDs(rows)

\* The insert without ON CONFLICT DO NOTHING: a conflicting row is an error.
InsertAncestryPlain(db, edges) ==
    LET anc == db.ancestry \cup edges
    IN  IF edges = {} THEN [dberr |-> "syntax", db |-> db]
        ELSE IF \E e \in edges : e[1] = Null
            THEN [dberr |-> "notnull:parent", db |-> db]
        ELSE IF \E e \in edges : e[2] = Null
            THEN [dberr |-> "notnull:child", db |-> db]
        ELSE IF \E e \in edges : AncestryConflict(db.ancestry, e)
            THEN [dberr |-> "unique:child", db |-> db]
        ELSE IF ~AncestryFKHolds(db.commits, edges)
            THEN [dberr |-> "fk", db |-> db]
        ELSE [dberr |-> "", db |-> [db EXCEPT !.ancestry = anc]]

\* The insert with ON CONFLICT (child) DO UPDATE SET parent = EXCLUDED.parent:
\* a row with the child of a proposed edge is replaced by the edge.
InsertAncestryDoUpdate(db, edges) ==
    LET kept == {e \in db.ancestry : \A n \in edges : n[2] # e[2]}
        anc  == kept \cup edges
    IN  IF edges = {} THEN [dberr |-> "syntax", db |-> db]
        ELSE IF \E e \in edges : e[1] = Null
            THEN [dberr |-> "notnull:parent", db |-> db]
        ELSE IF \E e \in edges : e[2] = Null
            THEN [dberr |-> "notnull:child", db |-> db]
        ELSE IF ~AncestryFKHolds(db.commits, edges)
            THEN [dberr |-> "fk", db |-> db]
        ELSE [dberr |-> "", db |-> [db EXCEPT !.ancestry = anc]]

\* INSERT INTO pfs.commit_ancestry (parent, child) VALUES ... ON CONFLICT DO
\* NOTHING, for the VALUES rows `edges`.  The primary key makes both columns
\* NOT NULL; a conflicting row is skipped; the foreign keys are checked for
\* the rows that went in.  dberr = "" when the statement succeeds.
InsertAncestryDoNothing(db, edges) ==
    LET added == {e \in edges : ~AncestryConflict(db.ancestry, e)}
        anc   == db.ancestry \cup added
    IN  IF edges = {} THEN [dberr |-> "syntax", db |-> db]
        ELSE IF \E e \in edges : e[1] = Null
            THEN [dberr |-> "notnull:parent", db |-> db]
        ELSE IF \E e \in edges : e[2] = Null
            THEN [dberr |-> "notnull:child", db |-> db]
        ELSE IF ~AncestryFKHolds(db.commits, added)
            THEN [dberr |-> "fk", db |-> db]
        ELSE [dberr |-> "", db |-> [db EXCEPT !.ancestry = anc]]

\* DELETE FROM pfs.commit_ancestry, without the WHERE clause
DeleteAncestryAll(db, id) == [db EXCEPT !.ancestry = {}]

\* DELETE FROM pfs.commit_ancestry WHERE parent=$1 OR child=$1
DeleteAncestryOf(db, id) ==
    [db EXCEPT !.ancestry = {e \in db.ancestry : e[1] # id /\ e[2] # id}]

\* DELETE FROM pfs.commits WHERE int_id=$1, with the rows it affected
DeleteCommitRow(db, id) ==
    LET gone == {r \in db.commits : r.int_id = id}
        left == db.commits \ gone
    IN  IF ~AncestryFKHolds(left, db.ancestry)
        THEN [dberr |-> "fk", rowsAffected |-> 0, db |-> db]
        ELSE [dberr |-> "", rowsAffected |-> Cardinality(gone),
              db |-> [db EXCEPT !.commits = left]]

\* (SELECT int_id FROM pfs.commits WHERE commit_id=$1)
SelectIntID(db, key) ==
    LET hit == {r.int_id : r \in {q \in db.commits : q.commit_id = key}}
    IN  IF hit = {} THEN Null ELSE CHOOSE i \in hit : TRUE

---------------------------------------------------------------------------
(* Errors.  A typed error keeps its type through errors.Wrap; a database   *)
(* error has no type of this package and is named "db:<violation>".        *)

\* errors.As(err, new(*CommitNotFoundError)); getCommitRowByCommitKey joins
\* RepoNotFound and CommitNotFound into one error that is both.
IsCommitNotFound(err) == err \in {"CommitNotFound", "RepoNotFound+CommitNotFound"}

IsRepoNotFound(err) == err \in {"RepoNotFound", "RepoNotFound+CommitNotFound"}

\* dbutil.IsNotNullViolation(err, "parent")
IsParentCommitNotFound(dberr) == dberr = "notnull:parent"

\* dbutil.IsNotNullViolation(err, "child")
IsChildCommitNotFound(dberr) == dberr = "notnull:child"

\* What an operation hands back: its error, the id it returns (NoID when it
\* returns none), the tables as the transaction now sees them, and whether
\* the database aborted the transaction.
Done(db, id) == [err |-> NoErr, id |-> id, db |-> db, aborted |-> FALSE]

Fail(err, db) == [err |-> err, id |-> NoID, db |-> db, aborted |-> FALSE]

Abort(err, db) == [err |-> err, id |-> NoID, db |-> db, aborted |-> TRUE]

---------------------------------------------------------------------------
(* Inputs: *pfs.CommitInfo and AncestryOpt *)

OriginKinds == {"ORIGIN_KIND_UNKNOWN", "USER", "AUTO", "FSCK"}

NoDetails == [present |-> FALSE, compacting |-> 0, validating |-> 0, size |-> 0]

EmptyDetails == [present |-> TRUE, compacting |-> 0, validating |-> 0, size |-> 0]

\* origin = "nil" is Origin == nil
CommitInfo(commit, origin, parent, children) ==
    [commit |-> commit, origin |-> origin, parent |-> parent, children |-> children,
     started |-> 1, finishing |-> 0, finished |-> 0, description |-> "",
     details |-> NoDetails, error |-> "", metadata |-> "", createdBy |-> ""]

AncestryOpt(skipParent, skipChildren) ==
    [SkipParent |-> skipParent, SkipChildren |-> skipChildren]

---------------------------------------------------------------------------
(* Lookups *)

getCommitRowByCommitKey(db, commit) ==
    IF ~commit.ptr THEN [err |-> "CommitMissingInfo", id |-> NoID]
    ELSE LET id == SelectIntID(db, CommitKey(commit))
         IN  IF "row" \in db.faults THEN [err |-> DBFailed, id |-> NoID]
             ELSE IF id # Null THEN [err |-> NoErr, id |-> id]
             ELSE IF ~RepoExists(commit)
                 THEN [err |-> "RepoNotFound+CommitNotFound", id |-> NoID]
             ELSE [err |-> "CommitNotFound", id |-> NoID]

GetCommitID(db, commit) ==
    IF ~commit.ptr THEN [err |-> "CommitMissingInfo", id |-> NoID]
    ELSE IF ~commit.hasRepo THEN [err |-> "CommitMissingInfo", id |-> NoID]
    ELSE getCommitRowByCommitKey(db, commit)

\* The parent row of childCommit: parent = NoID with ParentCommitNotFound
\* when the query has no row (sql.ErrNoRows).
getCommitParentRow(db, childCommit) ==
    LET hit == {e[1] : e \in {x \in db.ancestry : x[2] = childCommit}}
    IN  IF "parent" \in db.faults THEN [err |-> DBFailed, parent |-> NoID]
        ELSE IF hit = {} THEN [err |-> "ParentCommitNotFound", parent |-> NoID]
        ELSE [err |-> NoErr, parent |-> CHOOSE p \in hit : TRUE]

\* The child rows of parentCommit: ChildCommitNotFound when there is none.
getCommitChildrenRows(db, parentCommit) ==
    LET hit == {e[2] : e \in {x \in db.ancestry : x[1] = parentCommit}}
    IN  IF "children" \in db.faults THEN [err |-> DBFailed, children |-> {}]
        ELSE IF hit = {} THEN [err |-> "ChildCommitNotFound", children |-> {}]
        ELSE [err |-> NoErr, children |-> hit]

\* Both lookups, with "no parent" and "no children" turned into nil.
getCommitRelativeRows(db, commitID) ==
    LET p == getCommitParentRow(db, commitID)
        c == getCommitChildrenRows(db, commitID)
    IN  IF p.err # NoErr /\ p.err # "ParentCommitNotFound"
            THEN [err |-> p.err, parent |-> NoID, children |-> {}]
        ELSE IF c.err # NoErr /\ c.err # "ChildCommitNotFound"
            THEN [err |-> c.err, parent |-> NoID, children |-> {}]
        ELSE [err |-> NoErr, parent |-> p.parent, children |-> c.children]

\* a nil *pfs.Commit in a result
NilKey == ""

\* row.Pb(): the pfs.Commit of the row with the given int_id, named by its key
Pb(db, id) ==
    LET hit == {r.commit_id : r \in {q \in db.commits : q.int_id = id}}
    IN  IF hit = {} THEN NilKey ELSE CHOOSE k \in hit : TRUE

\* What a lookup of a commit hands back: *Commit with its ID, the key of
\* CommitInfo.Commit, CommitInfo.ParentCommit and .ChildCommits, and the
\* relatedCommitIDs.  Provenance is kept in other tables and is left out.
Found(id, key, rel) ==
    [err |-> NoErr, id |-> id, key |-> key,
     parent |-> rel.parentCommit, children |-> rel.childCommits,
     parentID |-> rel.parentRow, childrenIDs |-> rel.childRows]

NotFound(err) ==
    [err |-> err, id |-> NoID, key |-> NilKey, parent |-> NilKey, children |-> {},
     parentID |-> NoID, childrenIDs |-> {}]

getCommitRow(db, id) ==
    IF id = NoID THEN [err |-> "errors.New:invalid id", id |-> NoID]
    ELSE IF "row" \in db.faults THEN [err |-> DBFailed, id |-> NoID]
    ELSE IF id \notin RowIDs(db.commits) THEN [err |-> "CommitNotFound", id |-> NoID]
    ELSE [err |-> NoErr, id |-> id]

getCommitParent(db, childCommit) ==
    LET row == getCommitParentRow(db, childCommit)
    IN  IF row.err # NoErr THEN [err |-> row.err, commit |-> NilKey, parent |-> NoID]
        ELSE [err |-> NoErr, commit |-> Pb(db, row.parent), parent |-> row.parent]

getCommitChildren(db, parentCommit) ==
    LET hit == {e[2] : e \in {x \in db.ancestry : x[1] = parentCommit}}
    IN  IF "children" \in db.faults
            THEN [err |-> DBFailed, commits |-> {}, children |-> {}]
        ELSE IF hit = {}
            THEN [err |-> "ChildCommitNotFound", commits |-> {}, children |-> {}]
        ELSE [err |-> NoErr, commits |-> {Pb(db, c) : c \in hit}, children |-> hit]

NoRelatives(err) ==
    [err |-> err, parentCommit |-> NilKey, childCommits |-> {},
     parentRow |-> NoID, childRows |-> {}]

\* getCommitRelativesAndRows returning every error of the two lookups
getCommitRelativesAndRowsNoRecover(db, commitID) ==
    LET p == getCommitParent(db, commitID)
        c == getCommitChildren(db, commitID)
    IN  IF p.err # NoErr THEN NoRelatives(p.err)
        ELSE IF c.err # NoErr THEN NoRelatives(c.err)
        ELSE [err |-> NoErr, parentCommit |-> p.commit, childCommits |-> c.commits,
              parentRow |-> p.parent, childRows |-> c.children]

\* errors.As with a *ParentCommitNotFoundError or *ChildCommitNotFoundError
\* target matches an error of that type.
getCommitRelativesAndRows(db, commitID) ==
    LET p == getCommitParent(db, commitID)
        c == getCommitChildren(db, commitID)
    IN  IF p.err # NoErr /\ p.err # "ParentCommitNotFound" THEN NoRelatives(p.err)
        ELSE IF c.err # NoErr /\ c.err # "ChildCommitNotFound" THEN NoRelatives(c.err)
        ELSE [err |-> NoErr, parentCommit |-> p.commit, childCommits |-> c.commits,
              parentRow |-> p.parent, childRows |-> c.children]

\* row is the int_id of the row that was read
getCommitFromCommitRow(db, row) ==
    LET rel == getCommitRelativesAndRows(db, row)
    IN  IF rel.err # NoErr THEN NotFound(rel.err)
        ELSE Found(row, Pb(db, row), rel)

getCommitInternal(db, id) ==
    LET row == getCommitRow(db, id)
    IN  IF row.err # NoErr THEN NotFound(row.err)
        ELSE getCommitFromCommitRow(db, row.id)

GetCommit(db, id) == getCommitInternal(db, id)

\* the CommitInfo of GetCommit's result: no ID, no relatedCommitIDs
GetCommitInfo(db, id) ==
    LET c == GetCommit(db, id)
    IN  IF c.err # NoErr THEN c
        ELSE [c EXCEPT !.id = NoID, !.parentID = NoID, !.childrenIDs = {}]

GetCommitByKey(db, commit) ==
    LET row == getCommitRowByCommitKey(db, commit)
    IN  IF row.err # NoErr THEN NotFound(row.err)
        ELSE getCommitFromCommitRow(db, row.id)

GetCommitParent(db, childCommit) == getCommitParent(db, childCommit)

GetCommitChildren(db, parentCommit) == getCommitChildren(db, parentCommit)

---------------------------------------------------------------------------
(* Linking *)

\* CreateCommitParent with the two columns of the edge exchanged
CreateCommitParentSwapped(db, parentCommit, childCommit) ==
    LET parent == SelectIntID(db, CommitKey(parentCommit))
        ins    == InsertAncestryDoNothing(db, {<<childCommit, parent>>})
    IN  IF ins.dberr = "" THEN Done(ins.db, NoID)
        ELSE IF IsParentCommitNotFound(ins.dberr)
            THEN Abort("ParentCommitNotFound", db)
        ELSE Abort("db:" \o ins.dberr, db)

CreateCommitParent(db, parentCommit, childCommit) ==
    LET parent == SelectIntID(db, CommitKey(parentCommit))
        ins    == InsertAncestryDoNothing(db, {<<parent, childCommit>>})
    IN  IF ins.dberr = "" THEN Done(ins.db, NoID)
        ELSE IF IsParentCommitNotFound(ins.dberr)
            THEN Abort("ParentCommitNotFound", db)
        ELSE Abort("db:" \o ins.dberr, db)

CreateCommitAncestries(db, parentCommit, childrenCommits) ==
    LET ins == InsertAncestryDoNothing(db, {<<parentCommit, c>> : c \in childrenCommits})
    IN  IF ins.dberr = "" THEN Done(ins.db, NoID)
        ELSE IF IsChildCommitNotFound(ins.dberr)
            THEN Abort("ChildCommitNotFound", db)
        ELSE Abort("db:" \o ins.dberr, db)

CreateCommitChildren(db, parentCommit, childCommits) ==
    LET ins == InsertAncestryDoNothing(db,
                   {<<parentCommit, SelectIntID(db, CommitKey(c))>> : c \in childCommits})
    IN  IF ins.dberr = "" THEN Done(ins.db, NoID)
        ELSE IF IsChildCommitNotFound(ins.dberr)
            THEN Abort("ChildCommitNotFound", db)
        ELSE Abort("db:" \o ins.dberr, db)

---------------------------------------------------------------------------
(* CreateCommit *)

\* The error, and the info with empty details stubbed in for nil ones.
validateCommitInfo(commitInfo) ==
    LET stubbed == IF commitInfo.details.present THEN commitInfo
                   ELSE [commitInfo EXCEPT !.details = EmptyDetails]
    IN  IF ~commitInfo.commit.ptr THEN [err |-> "CommitMissingInfo", info |-> commitInfo]
        ELSE IF ~commitInfo.commit.hasRepo
            THEN [err |-> "CommitMissingInfo", info |-> commitInfo]
        ELSE IF commitInfo.origin = "nil"
            THEN [err |-> "CommitMissingInfo", info |-> commitInfo]
        ELSE IF commitInfo.origin \notin OriginKinds
            THEN [err |-> "errors.New:invalid origin", info |-> stubbed]
        ELSE [err |-> NoErr, info |-> stubbed]

\* The insert of a row that is always in state "started": the finishing and
\* finished times of the info are dropped
InsertCommitStarted(db, insert) ==
    LET id  == db.nextId
        row == [int_id |-> id,
                commit_id |-> CommitKey(insert.commit),
                commit_set_id |-> insert.commit.id,
                repo_id |-> SelectRepoID(insert.commit),
                branch_id |-> SelectBranchID(insert.commit),
                description |-> insert.description,
                origin |-> insert.origin,
                start_time |-> insert.started,
                finishing_time |-> 0,
                finished_time |-> 0,
                compacting_time_s |-> insert.details.compacting,
                validating_time_s |-> insert.details.validating,
                size |-> insert.details.size,
                error |-> insert.error,
                metadata |-> insert.metadata,
                created_by |-> insert.createdBy]
        db1 == [db EXCEPT !.nextId = id + 1]
    IN  IF row.repo_id = Null THEN [dberr |-> "notnull:repo_id", id |-> NoID, db |-> db1]
        ELSE IF ~CommitIDUnique(db.commits \cup {row})
            THEN [dberr |-> "unique:commit_id", id |-> NoID, db |-> db1]
        ELSE [dberr |-> "", id |-> id, db |-> [db1 EXCEPT !.commits = @ \cup {row}]]

\* The row built from the info (insert := CommitRow{...}) and the createCommit
\* statement: INSERT INTO pfs.commits ... RETURNING int_id.  A nil timestamp
\* is stored as no time (0).  The sequence moves on whether or not the row
\* goes in.
InsertCommit(db, insert) ==
    LET id  == db.nextId
        row == [int_id |-> id,
                commit_id |-> CommitKey(insert.commit),
                commit_set_id |-> insert.commit.id,
                repo_id |-> SelectRepoID(insert.commit),
                branch_id |-> SelectBranchID(insert.commit),
                description |-> insert.description,
                origin |-> insert.origin,
                start_time |-> insert.started,
                finishing_time |-> insert.finishing,
                finished_time |-> insert.finished,
                compacting_time_s |-> insert.details.compacting,
                validating_time_s |-> insert.details.validating,
                size |-> insert.details.size,
                error |-> insert.error,
                metadata |-> insert.metadata,
                created_by |-> insert.createdBy]
        db1 == [db EXCEPT !.nextId = id + 1]
    IN  IF row.repo_id = Null THEN [dberr |-> "notnull:repo_id", id |-> NoID, db |-> db1]
        ELSE IF ~CommitIDUnique(db.commits \cup {row})
            THEN [dberr |-> "unique:commit_id", id |-> NoID, db |-> db1]
        ELSE [dberr |-> "", id |-> id, db |-> [db1 EXCEPT !.commits = @ \cup {row}]]

\* CreateCommit up to the probe by key: the error it returns there, or nil
\* and the validated info when the key has no row.
CreateCommitProbe(db, commitInfo) ==
    LET v     == validateCommitInfo(commitInfo)
        probe == GetCommitByKey(db, v.info.commit)
    IN  IF v.err # NoErr THEN [err |-> v.err, info |-> v.info]
        ELSE IF probe.err = NoErr THEN [err |-> "CommitAlreadyExists", info |-> v.info]
        ELSE IF IsRepoNotFound(probe.err) THEN [err |-> probe.err, info |-> v.info]
        ELSE IF ~IsCommitNotFound(probe.err) THEN [err |-> probe.err, info |-> v.info]
        ELSE [err |-> NoErr, info |-> v.info]

\* CreateCommitInsert that links the relatives whatever the option says
CreateCommitInsertAlwaysLinks(db, info, opt) ==
    LET ins    == InsertCommit(db, info)
        linkP  == IF info.parent.ptr
                  THEN CreateCommitParent(ins.db, info.parent, ins.id)
                  ELSE Done(ins.db, NoID)
        linkC  == IF info.children # {}
                  THEN CreateCommitChildren(linkP.db, ins.id, info.children)
                  ELSE Done(linkP.db, NoID)
    IN  IF ins.dberr # "" THEN Abort("db:" \o ins.dberr, ins.db)
        ELSE IF linkP.err # NoErr THEN linkP
        ELSE IF linkC.err # NoErr THEN linkC
        ELSE Done(linkC.db, ins.id)

\* CreateCommit after the probe: the insert of the row and of its edges
CreateCommitInsert(db, info, opt) ==
    LET ins    == InsertCommit(db, info)
        linkP  == IF info.parent.ptr /\ ~opt.SkipParent
                  THEN CreateCommitParent(ins.db, info.parent, ins.id)
                  ELSE Done(ins.db, NoID)
        linkC  == IF info.children # {} /\ ~opt.SkipChildren
                  THEN CreateCommitChildren(linkP.db, ins.id, info.children)
                  ELSE Done(linkP.db, NoID)
    IN  IF ins.dberr # "" THEN Abort("db:" \o ins.dberr, ins.db)
        ELSE IF linkP.err # NoErr THEN linkP
        ELSE IF linkC.err # NoErr THEN linkC
        ELSE Done(linkC.db, ins.id)

\* CreateCommit without the probe by key
CreateCommitNoProbe(db, commitInfo, opt) ==
    LET v == validateCommitInfo(commitInfo)
    IN  IF v.err # NoErr THEN Fail(v.err, db)
        ELSE CreateCommitInsert(db, v.info, opt)

CreateCommit(db, commitInfo, opt) ==
    LET p == CreateCommitProbe(db, commitInfo)
    IN  IF p.err # NoErr THEN Fail(p.err, db)
        ELSE CreateCommitInsert(db, p.info, opt)

---------------------------------------------------------------------------
(* DeleteCommit *)

\* DeleteCommit without the repoint of the children to the parent
DeleteCommitNoRepoint(db, commit) ==
    LET got      == GetCommitID(db, commit)
        id       == got.id
        rel      == getCommitRelativeRows(db, id)
        unlinked == IF rel.parent # NoID \/ rel.children # {}
                    THEN DeleteAncestryOf(db, id) ELSE db
        del      == DeleteCommitRow(unlinked, id)
    IN  IF ~commit.ptr THEN Fail("CommitMissingInfo", db)
        ELSE IF got.err # NoErr THEN Fail(got.err, db)
        ELSE IF rel.err # NoErr THEN Fail(rel.err, db)
        ELSE IF del.dberr # "" THEN Abort("db:" \o del.dberr, del.db)
        ELSE IF del.rowsAffected = 0 THEN Fail("CommitNotFound", del.db)
        ELSE Done(del.db, NoID)

DeleteCommit(db, commit) ==
    LET got      == GetCommitID(db, commit)
        id       == got.id
        rel      == getCommitRelativeRows(db, id)
        unlinked == IF rel.parent # NoID \/ rel.children # {}
                    THEN DeleteAncestryOf(db, id) ELSE db
        repoint  == IF rel.parent # NoID /\ rel.children # {}
                    THEN CreateCommitAncestries(unlinked, rel.parent, rel.children)
                    ELSE Done(unlinked, NoID)
        del      == DeleteCommitRow(repoint.db, id)
    IN  IF ~commit.ptr THEN Fail("CommitMissingInfo", db)
        ELSE IF got.err # NoErr THEN Fail(got.err, db)
        ELSE IF rel.err # NoErr THEN Fail(rel.err, db)
        ELSE IF repoint.err # NoErr THEN repoint
        ELSE IF del.dberr # "" THEN Abort("db:" \o del.dberr, del.db)
        ELSE IF del.rowsAffected = 0 THEN Fail("CommitNotFound", del.db)
        ELSE Done(del.db, NoID)

---------------------------------------------------------------------------
(* Ancestry walks *)

MaxSearchDepth == 1000

RECURSIVE SeqOf(_)
\* the rows of one iteration of a query, in the order the database emits them
SeqOf(S) ==
    IF S = {} THEN <<>>
    ELSE LET x == CHOOSE y \in S : TRUE IN <<x>> \o SeqOf(S \ {x})

\* the recursive term with WHERE depth <= $2 in place of depth < $2
RecursiveTermInclusive(anc, working, maxDepth) ==
    LET a == {w \in working : w[3] <= maxDepth}
    IN  {r \in {<<ca[1], ca[2], w[3] + 1>> : ca \in anc, w \in a} :
            \E w \in a : r[2] = w[1] /\ r[3] = w[3] + 1}

\* One iteration of the recursive term of the ancestry query,
\*   SELECT ca.parent, ca.child, depth+1 FROM pfs.commit_ancestry ca
\*   JOIN ancestry a ON ca.child = a.parent WHERE depth < $2
\* over the rows `working` of the iteration before.
RecursiveTerm(anc, working, maxDepth) ==
    LET a == {w \in working : w[3] < maxDepth}
    IN  {r \in {<<ca[1], ca[2], w[3] + 1>> : ca \in anc, w \in a} :
            \E w \in a : r[2] = w[1] /\ r[3] = w[3] + 1}

RECURSIVE Iterate(_, _, _, _, _)
\* The iterations lo..hi of the query, `working` being the rows of iteration
\* lo: the rows they emit in turn, and the rows of the last one.  An empty
\* iteration ends the query.  The iterations are run first half, then second
\* half from where the first ended.  UNION drops duplicate rows; rows of
\* different depth never are.
Iterate(anc, working, lo, hi, maxDepth) ==
    IF working = {} THEN [rows |-> <<>>, last |-> {}]
    ELSE IF lo = hi THEN [rows |-> SeqOf(working), last |-> working]
    ELSE LET mid   == (lo + hi) \div 2
             first == Iterate(anc, working, lo, mid, maxDepth)
             rest  == Iterate(anc, RecursiveTerm(anc, first.last, maxDepth),
                              mid + 1, hi, maxDepth)
         IN  [rows |-> first.rows \o rest.rows, last |-> rest.last]

\* WITH RECURSIVE ancestry AS (SELECT parent, child, 1 as depth FROM
\* pfs.commit_ancestry WHERE child = $1 UNION ...) SELECT a.parent, a.child,
\* depth FROM ancestry a: the rows <<parent, child, depth>>, and whether the
\* query has ended.  It ends with the first iteration that has no rows; the
\* iterations are run up to the one after depth maxDepth (after depth 1, the
\* depth of the first rows, when maxDepth is less).
AncestryQuery(anc, startId, maxDepth) ==
    LET base == {<<e[1], e[2], 1>> : e \in {x \in anc : x[2] = startId}}
        hi   == (IF maxDepth < 1 THEN 1 ELSE maxDepth) + 1
        q    == Iterate(anc, base, 1, hi, maxDepth)
    IN  [rows |-> q.rows, ended |-> q.last = {}]

\* cb, as far as its caller sees it: it returns err at its failAt-th call and
\* nil at every other call; failAt = 0 is a callback that never fails.
Callback(failAt, err) == [failAt |-> failAt, err |-> err]

NeverFails == Callback(0, NoErr)

\* The loop over the rows of the query: cb is called on each row in turn until
\* it returns an error.  errors.Wrap keeps the identity of the error it wraps
\* (errors.Is), so the error returned is named as the one cb returned.
ForEachRow(q, cb) ==
    LET failed == cb.failAt \in 1..Len(q.rows)
        n      == IF failed THEN cb.failAt ELSE Len(q.rows)
    IN  [err |-> IF failed THEN cb.err ELSE NoErr,
         calls |-> [i \in 1..n |-> <<q.rows[i][1], q.rows[i][2]>>],
         ended |-> q.ended]

\* ForEachCommitAncestor without the clamp of maxDepth
ForEachCommitAncestorNoClamp(db, startId, maxDepth, cb) ==
    ForEachRow(AncestryQuery(db.ancestry, startId, maxDepth), cb)

\* ForEachCommitAncestor: the error, the <<parentId, childId>> of the calls of
\* cb in turn, and whether the query ended
ForEachCommitAncestor(db, startId, maxDepth, cb) ==
    LET depth == IF maxDepth = 0 \/ maxDepth > MaxSearchDepth
                 THEN MaxSearchDepth ELSE maxDepth
    IN  ForEachRow(AncestryQuery(db.ancestry, startId, depth), cb)

\* cb after n calls that returned nil
After(cb, n) == IF cb.failAt = 0 THEN cb ELSE Callback(cb.failAt - n, cb.err)

RECURSIVE UntilRootFrom(_, _, _, _, _, _)
\* The loop of forEachCommitAncestorUntilRoot at the batch that starts from
\* commitPtr, after the calls of cb in `calls` and the batches from the commits
\* in `seen`.  A batch that cb does not end leaves the loop with nothing but
\* commitPtr to go by: when it comes back to a commit it started a batch from
\* before, the loop never ends (diverged).
UntilRootFrom(db, commitPtr, cb, calls, seen, batches) ==
    LET r        == ForEachCommitAncestor(db, commitPtr, MaxSearchDepth, After(cb, Len(calls)))
        all      == calls \o r.calls
        earliest == IF r.calls = <<>> THEN commitPtr ELSE r.calls[Len(r.calls)][1]
        out(err, diverged) ==
            [err |-> err, calls |-> all, batches |-> batches + 1, diverged |-> diverged]
    IN  IF r.err = "ErrBreak" THEN out(NoErr, FALSE)
        ELSE IF r.err # NoErr THEN out(r.err, FALSE)
        ELSE IF earliest = commitPtr THEN out(NoErr, FALSE)
        ELSE IF cb.failAt = 0 /\ earliest \in seen THEN out(NoErr, TRUE)
        ELSE UntilRootFrom(db, earliest, cb, all, seen \cup {earliest}, batches + 1)

RECURSIVE UntilRootFromChild(_, _, _, _, _)
\* the loop with earliest = childId in its callback: the next batch starts
\* from the child of the last edge
UntilRootFromChild(db, commitPtr, cb, calls, batches) ==
    LET r        == ForEachCommitAncestor(db, commitPtr, MaxSearchDepth, After(cb, Len(calls)))
        all      == calls \o r.calls
        earliest == IF r.calls = <<>> THEN commitPtr ELSE r.calls[Len(r.calls)][2]
        out(err) == [err |-> err, calls |-> all, batches |-> batches + 1, diverged |-> FALSE]
    IN  IF r.err = "ErrBreak" THEN out(NoErr)
        ELSE IF r.err # NoErr THEN out(r.err)
        ELSE IF earliest = commitPtr THEN out(NoErr)
        ELSE UntilRootFromChild(db, earliest, cb, all, batches + 1)

\* forEachCommitAncestorUntilRoot with earliest = childId
forEachCommitAncestorFromChild(db, startId, cb) ==
    UntilRootFromChild(db, startId, cb, <<>>, 0)

\* forEachCommitAncestorUntilRoot that stops after its first batch
forEachCommitAncestorOneBatch(db, startId, cb) ==
    LET r == ForEachCommitAncestor(db, startId, MaxSearchDepth, cb)
    IN  [err |-> IF r.err = "ErrBreak" THEN NoErr ELSE r.err,
         calls |-> r.calls, batches |-> 1, diverged |-> FALSE]

\* forEachCommitAncestorUntilRoot: the error, the calls of cb in turn, the
\* number of ForEachCommitAncestor calls, and whether the loop never ends
forEachCommitAncestorUntilRoot(db, startId, cb) ==
    UntilRootFrom(db, startId, cb, <<>>, {startId}, 0)

---------------------------------------------------------------------------
(* Pickers *)

\* *pfs.RepoPicker, *pfs.BranchPicker and the variants of *pfs.CommitPicker
RepoPicker(project, name, type) == [project |-> project, name |-> name, type |-> type]

BranchPicker(repo, name) == [repo |-> repo, name |-> name]

NilPicker == [kind |-> "nil"]

\* a *pfs.CommitPicker whose Picker field is nil: no variant is set
UnsetPicker == [kind |-> "unset"]

\* a Picker of a type that is none of the four variants
UnknownPicker == [kind |-> "unknown"]

Id(repo, id) == [kind |-> "Id", repo |-> repo, id |-> id]

BranchHead(branch) == [kind |-> "BranchHead", branch |-> branch]

AncestorOf(start, offset) == [kind |-> "Ancestor", start |-> start, offset |-> offset]

BranchRoot(branch, offset) == [kind |-> "BranchRoot", branch |-> branch, offset |-> offset]

\* PickRepo: the repo the picker names, RepoNotFound without a row
PickRepo(db, picker) ==
    LET commit == Handle(picker.project, picker.name, picker.type, "")
    IN  IF RepoExists(commit) THEN [err |-> NoErr, repo |-> commit]
        ELSE [err |-> "RepoNotFound", repo |-> NilCommit]

\* PickBranch: the branch the picker names with its head, BranchNotFound
\* without a row
PickBranch(db, picker) ==
    LET repo == PickRepo(db, picker.repo)
    IN  IF repo.err # NoErr THEN [err |-> repo.err, head |-> NilCommit]
        ELSE IF \E b \in BranchRows : /\ b.name = picker.name
                                      /\ b.repo_id = SelectRepoID(repo.repo)
            THEN [err |-> NoErr, head |-> db.head]
        ELSE [err |-> "BranchNotFound", head |-> NilCommit]

\* What PickCommit hands back: the *Commit as a lookup hands it back, the
\* calls of cb that this picker made in its own walk, and the number of
\* ancestry queries of that walk.
Picked(c, calls, batches) ==
    [err |-> c.err, id |-> c.id, key |-> c.key, parent |-> c.parent,
     children |-> c.children, parentID |-> c.parentID, childrenIDs |-> c.childrenIDs,
     calls |-> calls, batches |-> batches, diverged |-> FALSE]

PickFailed(err) == Picked(NotFound(err), <<>>, 0)

\* the call never returns
PickDiverged == [PickFailed(NoErr) EXCEPT !.diverged = TRUE]

\* &Commit{ID: id, CommitInfo: commitInfo} of the last lines of the two walking
\* pickers
CommitOf(db, id, w) ==
    LET commitInfo == GetCommitInfo(db, id)
    IN  IF commitInfo.err # NoErr THEN PickFailed(commitInfo.err)
        ELSE Picked([commitInfo EXCEPT !.id = id], w.calls, w.batches)

pickCommitGlobalID(db, picker) ==
    LET repo == PickRepo(db, picker.repo)
    IN  IF repo.err # NoErr THEN PickFailed(repo.err)
        ELSE Picked(GetCommitByKey(db, [repo.repo EXCEPT !.id = picker.id]), <<>>, 0)

pickCommitBranchHead(db, branchHead) ==
    LET branch == PickBranch(db, branchHead)
    IN  IF branch.err # NoErr THEN PickFailed(branch.err)
        ELSE Picked(GetCommitByKey(db, branch.head), <<>>, 0)

\* pickCommitAncestorOf once the start is resolved, without the return of the
\* start at offset 0
AncestorOfWalk(db, startCommit, Offset) ==
    LET w         == forEachCommitAncestorUntilRoot(db, startCommit.id,
                                                    Callback(Offset + 1, "ErrBreak"))
        offset    == IF Len(w.calls) > Offset THEN Offset ELSE Len(w.calls)
        commitPtr == IF offset = 0 THEN startCommit.id ELSE w.calls[offset][1]
    IN  IF w.diverged THEN PickDiverged
        ELSE IF w.err # NoErr THEN PickFailed(w.err)
        ELSE IF offset # Offset
            THEN PickFailed("errors.Errorf:invalid offset for ancestor of commit")
        ELSE CommitOf(db, commitPtr, w)

\* pickCommitAncestorOf without the return of the start at offset 0
pickCommitAncestorOfAlwaysWalks(db, startCommit, Offset) ==
    IF startCommit.err # NoErr \/ startCommit.diverged THEN startCommit
    ELSE AncestorOfWalk(db, startCommit, Offset)

\* pickCommitAncestorOf whose offset counts the start commit as the first
\* ancestor
pickCommitAncestorOfCountsStart(db, startCommit, Offset) ==
    IF startCommit.err # NoErr \/ startCommit.diverged THEN startCommit
    ELSE IF Offset = 0 THEN startCommit
    ELSE AncestorOfWalk(db, startCommit, Offset - 1)

\* pickCommitAncestorOf, startCommit being what PickCommit(ancestorOf.Start)
\* returned.  cb counts the parents it is handed in offset, keeps the last in
\* commitPtr and breaks at the call after the Offset-th.
pickCommitAncestorOf(db, startCommit, Offset) ==
    IF startCommit.err # NoErr \/ startCommit.diverged THEN startCommit
    ELSE IF Offset = 0 THEN startCommit
    ELSE AncestorOfWalk(db, startCommit, Offset)

\* pickCommitBranchRoot.  pathToRoot holds the head and then the parents cb is
\* handed, cut from the front to Offset+1 commits after every append;
\* depthToRoot counts the head and the calls of cb.  The offsets and counts
\* of the model stay far below 2^32, where the uint32 conversions of the
\* code are the identity and Offset+1 does not wrap.
pickCommitBranchRoot(db, branchRoot) ==
    LET headCommit  == pickCommitBranchHead(db, branchRoot.branch)
        w           == forEachCommitAncestorUntilRoot(db, headCommit.id, NeverFails)
        path        == <<headCommit.id>> \o [i \in 1..Len(w.calls) |-> w.calls[i][1]]
        depthToRoot == 1 + Len(w.calls)
        window      == branchRoot.offset + 1
        kept        == IF Len(path) > window THEN window ELSE Len(path)
    IN  IF headCommit.err # NoErr THEN headCommit
        ELSE IF w.diverged THEN PickDiverged
        ELSE IF w.err # NoErr THEN PickFailed(w.err)
        ELSE IF depthToRoot < branchRoot.offset
            THEN PickFailed("errors.Errorf:invalid offset from branch root")
        ELSE CommitOf(db, path[Len(path) - kept + 1], w)

RECURSIVE PickCommitSilent(_, _)
\* PickCommit without the nil check and with a default case that returns
\* nil, nil
PickCommitSilent(db, commitPicker) ==
    IF commitPicker.kind = "Id" THEN pickCommitGlobalID(db, commitPicker)
    ELSE IF commitPicker.kind = "BranchHead"
        THEN pickCommitBranchHead(db, commitPicker.branch)
    ELSE IF commitPicker.kind = "Ancestor"
        THEN pickCommitAncestorOf(db, PickCommitSilent(db, commitPicker.start),
                                  commitPicker.offset)
    ELSE IF commitPicker.kind = "BranchRoot" THEN pickCommitBranchRoot(db, commitPicker)
    ELSE PickFailed(NoErr)

RECURSIVE PickCommit(_, _)
PickCommit(db, commitPicker) ==
    IF commitPicker.kind \in {"nil", "unset"}
        THEN PickFailed("errors.New:commit picker cannot be nil")
    ELSE IF commitPicker.kind = "Id" THEN pickCommitGlobalID(db, commitPicker)
    ELSE IF commitPicker.kind = "BranchHead"
        THEN pickCommitBranchHead(db, commitPicker.branch)
    ELSE IF commitPicker.kind = "Ancestor"
        THEN pickCommitAncestorOf(db, PickCommit(db, commitPicker.start),
                                  commitPicker.offset)
    ELSE IF commitPicker.kind = "BranchRoot" THEN pickCommitBranchRoot(db, commitPicker)
    ELSE PickFailed("errors.Errorf:commit picker is of an unknown type")

---------------------------------------------------------------------------
(* Targeted updates *)

\* commits.repo_id REFERENCES repos, commits.branch_id REFERENCES branches
\* (nullable)
CommitsFKHolds(rows) ==
    \A r \in rows :
        /\ r.repo_id \in {q.id : q \in RepoRows}
        /\ r.branch_id \in {Null} \cup {b.id : b \in BranchRows}

\* &CommitRow{ID: id}: every other field has Go's zero value; a NullInt64
\* that is not Valid binds as NULL.
CommitRow(id) ==
    [int_id |-> id, commit_id |-> "", commit_set_id |-> "", repo_id |-> 0,
     branch_id |-> Null, description |-> "", origin |-> "", start_time |-> 0,
     finishing_time |-> 0, finished_time |-> 0, compacting_time_s |-> 0,
     validating_time_s |-> 0, size |-> 0, error |-> "", metadata |-> "",
     created_by |-> ""]

\* UPDATE pfs.commits SET <columns> WHERE int_id=:int_id, the named
\* parameters bound from the fields of row.
UpdateCommits(db, columns, row) ==
    LET hit  == {r \in db.commits : r.int_id = row.int_id}
        new  == {[c \in DOMAIN r |-> IF c \in columns THEN row[c] ELSE r[c]] : r \in hit}
        rows == (db.commits \ hit) \cup new
    IN  IF ~CommitsFKHolds(rows)
        THEN [dberr |-> "fk", rowsAffected |-> 0, db |-> db]
        ELSE [dberr |-> "", rowsAffected |-> Cardinality(hit),
              db |-> [db EXCEPT !.commits = rows]]

\* update without the check of the affected rows
updateUnchecked(db, columns, row) ==
    LET res == UpdateCommits(db, columns, row)
    IN  IF res.dberr # "" THEN Abort("db:" \o res.dberr, db)
        ELSE Done(res.db, NoID)

update(db, columns, row) ==
    LET res == UpdateCommits(db, columns, row)
    IN  IF res.dberr # "" THEN Abort("db:" \o res.dberr, db)
        ELSE IF res.rowsAffected = 0 THEN Fail("CommitNotFound", res.db)
        ELSE Done(res.db, NoID)

UpdateCommitBranch(db, commitID, branchID) ==
    update(db, {"branch_id"}, [CommitRow(commitID) EXCEPT !.branch_id = branchID])

FinishingCommit(db, commitID, finishingTime, error) ==
    update(db, {"finishing_time", "error"},
           [CommitRow(commitID) EXCEPT !.finishing_time = finishingTime,
                                       !.error = error])

\* details is dereferenced as it is passed: callers pass a non-nil pointer.
FinishCommit(db, commitID, finishedTime, error, details) ==
    update(db, {"finished_time", "error", "compacting_time_s", "validating_time_s", "size"},
           [CommitRow(commitID) EXCEPT !.finished_time = finishedTime,
                                       !.compacting_time_s = details.compacting,
                                       !.validating_time_s = details.validating,
                                       !.size = details.size,
                                       !.error = error])

UpdateCommitMetadata(db, commitID, metadata) ==
    update(db, {"metadata"}, [CommitRow(commitID) EXCEPT !.metadata = metadata])

\* UpdateDescription with a statement that also sets the error column
UpdateDescriptionAndError(db, commitID, description) ==
    update(db, {"description", "error"},
           [CommitRow(commitID) EXCEPT !.description = description])

UpdateDescription(db, commitID, description) ==
    update(db, {"description"}, [CommitRow(commitID) EXCEPT !.description = description])

---------------------------------------------------------------------------
(* Iteration: the commits of a filter, in an order, page by page.  The     *)
(* page iterator, stream.ForEach and the ORDER BY builder are code outside *)
(* this package; they are modelled as the specification describes them:    *)
(* LIMIT/OFFSET pages of one query, read one after the other until a page  *)
(* is empty.                                                               *)

commitsPageSize == 1000

\* the pageSize that ForEachCommit passes
ForEachCommitPageSize == 100

CommitColumnID == "commit.int_id"

CommitColumnRepoID == "commit.repo_id"

CommitColumnOrigin == "commit.origin"

SortOrderAsc == "ASC"

SortOrderDesc == "DESC"

OrderByCommitColumn(column, order) == [Column |-> column, Order |-> order]

\* The value of a column of the join getCommit (commit JOIN repo JOIN project
\* LEFT JOIN branch) in the joined row of `row`, as a set: empty for NULL,
\* which no comparison matches.
ColumnValues(column, row) ==
    IF column = "repo.name" THEN {r.name : r \in {q \in RepoRows : q.id = row.repo_id}}
    ELSE IF column = "repo.type" THEN {r.type : r \in {q \in RepoRows : q.id = row.repo_id}}
    ELSE IF column = "project.name"
        THEN {r.project : r \in {q \in RepoRows : q.id = row.repo_id}}
    ELSE IF column = "commit.commit_set_id" THEN {row.commit_set_id}
    ELSE IF column = "branch.name"
        THEN {b.name : b \in {q \in BranchRows : q.id = row.branch_id}}
    ELSE IF column = CommitColumnRepoID THEN {row.repo_id}
    ELSE {}

\* a condition "<column> = ?" with its bound value
Condition(column, value) == <<column, value>>

\* the conditions NewCommitsIterator collects from filter: one per non-empty
\* field
FilterConditions(filter) ==
    IF ~filter.ptr THEN {}
    ELSE (IF filter.hasRepo /\ filter.name # ""
            THEN {Condition("repo.name", filter.name)} ELSE {})
        \cup (IF filter.hasRepo /\ filter.type # ""
            THEN {Condition("repo.type", filter.type)} ELSE {})
        \cup (IF filter.hasRepo /\ filter.project # ""
            THEN {Condition("project.name", filter.project)} ELSE {})
        \cup (IF filter.id # ""
            THEN {Condition("commit.commit_set_id", filter.id)} ELSE {})
        \cup (IF filter.branch # ""
            THEN {Condition("branch.name", filter.branch)} ELSE {})

\* WHERE c1 AND c2 AND ...; no WHERE clause without a condition
Where(conditions, row) ==
    \A c \in conditions : c[2] \in ColumnValues(c[1], row)

\* the place of an origin in the order of the column
OriginRank(origin) ==
    IF origin = "AUTO" THEN 1
    ELSE IF origin = "FSCK" THEN 2
    ELSE IF origin = "ORIGIN_KIND_UNKNOWN" THEN 3
    ELSE IF origin = "USER" THEN 4
    ELSE 0

\* the value of an ORDER BY column, as a number
OrderValue(column, row) ==
    IF column = CommitColumnID THEN row.int_id
    ELSE IF column = CommitColumnRepoID THEN row.repo_id
    ELSE IF column = CommitColumnOrigin THEN OriginRank(row.origin)
    ELSE 0

\* The order in which the database returns two rows that are equal on every
\* ORDER BY column is not fixed by the statement; two of the orders it may
\* choose are modelled: by int_id upwards and by int_id downwards.
TieOrders == {"up", "down"}

RECURSIVE Precedes(_, _, _, _)
\* row a comes before row b under ORDER BY orderBys, ties as `tie` says
Precedes(orderBys, tie, a, b) ==
    IF orderBys = <<>>
        THEN IF tie = "up" THEN a.int_id < b.int_id ELSE a.int_id > b.int_id
    ELSE LET o  == Head(orderBys)
             va == OrderValue(o.Column, a)
             vb == OrderValue(o.Column, b)
         IN  IF va = vb THEN Precedes(Tail(orderBys), tie, a, b)
             ELSE IF o.Order = SortOrderAsc THEN va < vb ELSE va > vb

\* the rows of a set in a sequence, by int_id; maxId is at least every int_id
RowSeq(rows, maxId) ==
    LET ids == SelectSeq([i \in 1..maxId |-> i], LAMBDA i : i \in RowIDs(rows))
    IN  [p \in 1..Len(ids) |-> CHOOSE r \in rows : r.int_id = ids[p]]

\* a query: getCommit WHERE conditions ORDER BY orderBys
Query(conditions, orderBys) == [conditions |-> conditions, orderBys |-> orderBys]

\* <query> LIMIT limit OFFSET offset: the int_ids of the rows of the page
SelectPage(db, query, limit, offset, tie) ==
    LET hit    == {r \in db.commits : Where(query.conditions, r)}
        sorted == SortSeq(RowSeq(hit, db.nextId),
                          LAMBDA a, b : Precedes(query.orderBys, tie, a, b))
        last   == IF offset + limit < Len(sorted) THEN offset + limit ELSE Len(sorted)
    IN  [i \in 1..(IF last > offset THEN last - offset ELSE 0) |-> sorted[offset + i].int_id]

\* pageIterator: the query, the page size, the offset of the next page, the
\* page read last and how many of its rows have been handed out, and the
\* revision of the next row
newPageIterator(query, startPage, pageSize) ==
    [query |-> query, limit |-> pageSize, offset |-> startPage * pageSize,
     page |-> <<>>, pageIdx |-> 0, revision |-> 0]

EOS == "stream.EOS"

\* NewCommitsIterator; without orderBys the order is int_id ASC
NewCommitsIterator(startPage, pageSize, filter, orderBys) ==
    newPageIterator(
        Query(FilterConditions(filter),
              IF orderBys = <<>>
              THEN <<OrderByCommitColumn(CommitColumnID, SortOrderAsc)>>
              ELSE orderBys),
        startPage, pageSize)

\* pageIterator.next: the next row of the page in hand or, when none is left,
\* the first row of the page at offset; stream.EOS when that page is empty
next(it, db, tie) ==
    IF it.pageIdx < Len(it.page)
        THEN [err |-> NoErr, id |-> it.page[it.pageIdx + 1], rev |-> it.revision,
              it |-> [it EXCEPT !.pageIdx = @ + 1, !.revision = @ + 1]]
    ELSE LET page == SelectPage(db, it.query, it.limit, it.offset, tie)
         IN  IF page = <<>> THEN [err |-> EOS, id |-> NoID, rev |-> 0, it |-> it]
             ELSE [err |-> NoErr, id |-> page[1], rev |-> it.revision,
                   it |-> [it EXCEPT !.page = page, !.pageIdx = 1,
                                     !.offset = @ + it.limit, !.revision = @ + 1]]

\* CommitIterator.Next: the row of the paginator with its relatives read; dst
\* is the commit with its ID and Revision
CommitIteratorNext(it, db, tie) ==
    LET row == next(it, db, tie)
        c   == getCommitFromCommitRow(db, row.id)
    IN  IF row.err # NoErr
            THEN [err |-> row.err, id |-> NoID, rev |-> 0, it |-> row.it,
                  commit |-> NotFound(row.err)]
        ELSE [err |-> c.err, id |-> IF c.err = NoErr THEN row.id ELSE NoID,
              rev |-> IF c.err = NoErr THEN row.rev ELSE 0, it |-> row.it, commit |-> c]

\* the order of ties in the q-th query of a call, for a plan of the database
TiePlans == {<<"up">>, <<"down">>, <<"up", "down">>, <<"down", "up">>}

TieOf(plan, q) == plan[((q - 1) % Len(plan)) + 1]

RECURSIVE ForEachPage(_, _, _, _, _, _)
\* stream.ForEach(ctx, iter, cb) on tables that do not change while it runs,
\* from the q-th page query on: Next hands out the rows of a page in turn
\* and cb is called on each, so the loop is run a page at a time.  It ends
\* with nil at the first empty page and with the error of cb when cb fails.
ForEachPage(it, db, cb, plan, q, calls) ==
    LET page == SelectPage(db, it.query, it.limit, it.offset, TieOf(plan, q))
        all  == calls \o page
    IN  IF page = <<>> THEN [err |-> NoErr, calls |-> calls]
        ELSE IF cb.failAt \in (Len(calls) + 1)..Len(all)
            THEN [err |-> cb.err, calls |-> SubSeq(all, 1, cb.failAt)]
        ELSE ForEachPage([it EXCEPT !.offset = @ + it.limit], db, cb, plan, q + 1, all)

\* ForEachCommitTxByFilter: the error, and the int_ids of the commits cb was
\* called on, in turn
ForEachCommitTxByFilter(db, filter, cb, orderBys, plan) ==
    IF ~filter.ptr THEN [err |-> "errors.Errorf:filter cannot be empty", calls |-> <<>>]
    ELSE ForEachPage(NewCommitsIterator(0, commitsPageSize, filter, orderBys),
                     db, cb, plan, 1, <<>>)

\* ListCommitTxByFilter: the error and the commits, nil with an error
ListCommitTxByFilter(db, filter, orderBys, plan) ==
    LET r == ForEachCommitTxByFilter(db, filter, NeverFails, orderBys, plan)
    IN  IF r.err # NoErr THEN [err |-> r.err, calls |-> <<>>] ELSE r

---------------------------------------------------------------------------
(* The state machine: one call per step, each in the caller's transaction *)

Now == DB(commits, ancestry, nextId)

\* ret: the operation called last, the error it returned, what held of its
\* arguments when it was called (a set of tags, see the Do actions), and the
\* CommitID it was called with (NoID when it takes a key or several ids).
Call(op, err, pre, id) ==
    [op |-> op, err |-> err, pre |-> pre, id |-> id, out |-> <<>>]

\* ret of a lookup, with what it handed back
Looked(op, r, pre, id) == [Call(op, r.err, pre, id) EXCEPT !.out = r]

Tag(cond, tag) == IF cond THEN {tag} ELSE {}

\* The tables after a call that returned r: rolled back when the database
\* aborted the transaction.  The sequence is never rolled back.
Returns(r, op, pre, id) ==
    /\ r.db.nextId <= MaxCommitId + 1
    /\ commits' = IF r.aborted THEN commits ELSE r.db.commits
    /\ ancestry' = IF r.aborted THEN ancestry ELSE r.db.ancestry
    /\ nextId' = r.db.nextId
    /\ ret' = Call(op, r.err, pre, id)
    /\ UNCHANGED <<created, tx, walk>>

ParentsOf(anc, id) == {e[1] : e \in {x \in anc : x[2] = id}}

ChildrenOf(anc, id) == {e[2] : e \in {x \in anc : x[1] = id}}

\* child lists passed to the link calls: each single child, and all of S
ChildLists(S) == {{c} : c \in S} \cup {S}

NoSkip == AncestryOpt(FALSE, FALSE)

\* The calls of CreateCommit on the commits of the repo: with every parent
\* and child list and no option, and with a relative that the option skips.
CreateCalls ==
    {<<CommitInfo(c, "USER", p, k), NoSkip>> :
        c \in DataCommits, p \in DataCommits \cup {NilCommit},
        k \in ChildLists(DataCommits) \cup {{}}}
    \cup {<<CommitInfo(c, "USER", IF o.SkipParent THEN r ELSE NilCommit,
                       IF o.SkipChildren THEN {r} ELSE {}), o>> :
        c \in DataCommits, r \in DataCommits,
        o \in {AncestryOpt(TRUE, FALSE), AncestryOpt(FALSE, TRUE),
               AncestryOpt(TRUE, TRUE)}}

HasRow(rows, commit) ==
    commit.ptr /\ commit.hasRepo /\ \E r \in rows : r.commit_id = CommitKey(commit)

\* "valid": the info passes validation; "exists": its key has a row;
\* "relatives": a parent or children are passed; "parent:<key>": the parent
\* passed has that key, it has a row, and the option does not skip it.
DoCreateCommit(info, opt) ==
    \E r \in {CreateCommit(Now, info, opt)} :
        Returns(r, "CreateCommit",
                Tag(info.commit.ptr /\ info.commit.hasRepo /\ info.origin \in OriginKinds,
                    "valid")
                \cup Tag(HasRow(commits, info.commit), "exists")
                \cup Tag(info.parent.ptr \/ info.children # {}, "relatives")
                \cup Tag(HasRow(commits, info.parent) /\ ~opt.SkipParent,
                         "parent:" \o CommitKey(info.parent)),
                NoID)

\* "dup": every edge asked for is already in the table; "taken": a child
\* asked for already has another parent.
DoCreateCommitParent(parentCommit, childCommit) ==
    \E r \in {CreateCommitParent(Now, parentCommit, childCommit)} :
        Returns(r, "CreateCommitParent",
                Tag(<<SelectIntID(Now, CommitKey(parentCommit)), childCommit>>
                        \in ancestry, "dup")
                \cup Tag(ParentsOf(ancestry, childCommit)
                            \ {SelectIntID(Now, CommitKey(parentCommit))} # {}, "taken"),
                NoID)

DoCreateCommitAncestries(parentCommit, childrenCommits) ==
    \E r \in {CreateCommitAncestries(Now, parentCommit, childrenCommits)} :
        Returns(r, "CreateCommitAncestries",
                Tag(/\ childrenCommits # {}
                    /\ \A c \in childrenCommits : <<parentCommit, c>> \in ancestry,
                    "dup")
                \cup Tag(\E c \in childrenCommits :
                            ParentsOf(ancestry, c) \ {parentCommit} # {}, "taken"),
                NoID)

DoCreateCommitChildren(parentCommit, childCommits) ==
    \E r \in {CreateCommitChildren(Now, parentCommit, childCommits)} :
        Returns(r, "CreateCommitChildren",
                Tag(/\ childCommits # {}
                    /\ \A c \in childCommits :
                        <<parentCommit, SelectIntID(Now, CommitKey(c))>> \in ancestry,
                    "dup")
                \cup Tag(\E c \in childCommits :
                            ParentsOf(ancestry, SelectIntID(Now, CommitKey(c)))
                                \ {parentCommit} # {}, "taken"),
                NoID)

\* "norow": the handle is a full key and no row has it; "parent", "children":
\* the row it names has a parent, has children.
DoDeleteCommit(commit) ==
    \E r \in {DeleteCommit(Now, commit)} :
        Returns(r, "DeleteCommit",
                Tag(commit.ptr /\ commit.hasRepo /\ ~HasRow(commits, commit), "norow")
                \cup Tag(\E x \in commits : /\ HasRow({x}, commit)
                                            /\ ParentsOf(ancestry, x.int_id) # {},
                         "parent")
                \cup Tag(\E x \in commits : /\ HasRow({x}, commit)
                                            /\ ChildrenOf(ancestry, x.int_id) # {},
                         "children"),
                NoID)

\* no CreateCommit has succeeded yet
NoneCreated == [k \in {CommitKey(c) : c \in DataCommits} |-> 0]

\* no transaction is in flight, no walk has been asked for
NoTx == <<>>

NoWalk == <<>>

Init ==
    /\ commits = {}
    /\ ancestry = {}
    /\ nextId = 1
    /\ ret = Call("", NoErr, {}, NoID)
    /\ created = NoneCreated
    /\ tx = NoTx
    /\ walk = NoWalk

Next ==
    \/ \E call \in CreateCalls : DoCreateCommit(call[1], call[2])
    \/ \E p \in DataCommits, c \in CommitIDs : DoCreateCommitParent(p, c)
    \/ \E p \in CommitIDs, k \in ChildLists(CommitIDs) : DoCreateCommitAncestries(p, k)
    \/ \E p \in CommitIDs, k \in ChildLists(DataCommits) : DoCreateCommitChildren(p, k)
    \/ \E c \in DataCommits : DoDeleteCommit(c)

Spec == Init /\ [][Next]_vars

---------------------------------------------------------------------------
(* The targeted updates, on the rows of a parent and its child *)

\* "norow": no row has the id
DoUpdateCommitBranch(commitID, branchID) ==
    \E r \in {UpdateCommitBranch(Now, commitID, branchID)} :
        Returns(r, "UpdateCommitBranch",
                Tag(commitID \notin RowIDs(commits), "norow"), commitID)

DoFinishingCommit(commitID, finishingTime, error) ==
    \E r \in {FinishingCommit(Now, commitID, finishingTime, error)} :
        Returns(r, "FinishingCommit",
                Tag(commitID \notin RowIDs(commits), "norow"), commitID)

DoFinishCommit(commitID, finishedTime, error, details) ==
    \E r \in {FinishCommit(Now, commitID, finishedTime, error, details)} :
        Returns(r, "FinishCommit",
                Tag(commitID \notin RowIDs(commits), "norow"), commitID)

DoUpdateCommitMetadata(commitID, metadata) ==
    \E r \in {UpdateCommitMetadata(Now, commitID, metadata)} :
        Returns(r, "UpdateCommitMetadata",
                Tag(commitID \notin RowIDs(commits), "norow"), commitID)

DoUpdateDescription(commitID, description) ==
    \E r \in {UpdateDescription(Now, commitID, description)} :
        Returns(r, "UpdateDescription",
                Tag(commitID \notin RowIDs(commits), "norow"), commitID)

\* CreateCommit of c1, then of c2 with parent c1
ParentAndChild ==
    LET c1 == Handle("default", "data", "user", "c1")
        c2 == Handle("default", "data", "user", "c2")
        d1 == CreateCommit(DB({}, {}, 1), CommitInfo(c1, "USER", NilCommit, {}), NoSkip).db
    IN  CreateCommit(d1, CommitInfo(c2, "AUTO", c1, {}), NoSkip).db

InitUpdate ==
    /\ commits = ParentAndChild.commits
    /\ ancestry = ParentAndChild.ancestry
    /\ nextId = ParentAndChild.nextId
    /\ ret = Call("", NoErr, {}, NoID)
    /\ created = NoneCreated
    /\ tx = NoTx
    /\ walk = NoWalk

SomeDetails == [present |-> TRUE, compacting |-> 1, validating |-> 1, size |-> 1]

NextUpdate ==
    \/ \E i \in CommitIDs, b \in {1, 2} : DoUpdateCommitBranch(i, b)
    \/ \E i \in CommitIDs : DoFinishingCommit(i, 2, "failing")
    \/ \E i \in CommitIDs : DoFinishCommit(i, 3, "failed", SomeDetails)
    \/ \E i \in CommitIDs : DoUpdateCommitMetadata(i, "k=v")
    \/ \E i \in CommitIDs : DoUpdateDescription(i, "text")
    \/ \E c \in DataCommits \cup {GhostCommit} : DoDeleteCommit(c)

SpecUpdate == InitUpdate /\ [][NextUpdate]_vars

---------------------------------------------------------------------------
(* CreateCommit in concurrent transactions.  Isolation is read committed:  *)
(* a statement sees the rows committed before it starts and the rows of    *)
(* its own transaction.  `commits` and `ancestry` hold what is committed;  *)
(* tx[t] holds the call of transaction t: where it is, its validated info, *)
(* and the rows and edges it has inserted and not yet committed.           *)

Txs == {"T1", "T2"}

Idle == [pc |-> "idle", info |-> CommitInfo(NilCommit, "nil", NilCommit, {}),
         rows |-> {}, edges |-> {}]

\* what a statement of transaction t sees
View(t) == DB(commits \cup tx[t].rows, ancestry \cup tx[t].edges, nextId)

\* the rows other transactions have inserted and not committed
PendingRows(t) == UNION {tx[u].rows : u \in Txs \ {t}}

EndTx(t, op, err, pre) ==
    /\ tx' = [tx EXCEPT ![t] = Idle]
    /\ ret' = Call(op, err, pre, NoID)

\* CreateCommit up to its probe.  An error ends the call; the transaction
\* has written nothing.
TxCreateCommitProbe(t, commitInfo) ==
    /\ tx[t].pc = "idle"
    /\ \E p \in {CreateCommitProbe(View(t), commitInfo)} :
        IF p.err # NoErr
        THEN EndTx(t, "CreateCommit", p.err, Tag(HasRow(commits, commitInfo.commit), "exists"))
        ELSE /\ tx' = [tx EXCEPT ![t] = [Idle EXCEPT !.pc = "probed", !.info = p.info]]
             /\ ret' = Call("CreateCommit:probe", NoErr, {}, NoID)
    /\ UNCHANGED <<commits, ancestry, nextId, created, walk>>

\* CreateCommit from its insert on.  The unique index on commit_id makes the
\* insert wait while another transaction holds an uncommitted row with the
\* same key; a database error aborts the transaction.
TxCreateCommitInsert(t) ==
    /\ tx[t].pc = "probed"
    /\ \E r \in {CreateCommitInsert(View(t), tx[t].info, NoSkip)} :
        /\ r.db.nextId <= MaxCommitId + 1
        /\ CommitIDUnique(PendingRows(t) \cup (r.db.commits \ commits))
        /\ nextId' = r.db.nextId
        /\ IF r.err # NoErr
           THEN EndTx(t, "CreateCommit", r.err, Tag(HasRow(commits, tx[t].info.commit), "exists"))
           ELSE /\ tx' = [tx EXCEPT ![t] = [@ EXCEPT !.pc = "inserted",
                                                     !.rows = r.db.commits \ commits,
                                                     !.edges = r.db.ancestry \ ancestry]]
                /\ ret' = Call("CreateCommit", NoErr, {}, NoID)
    /\ UNCHANGED <<commits, ancestry, created, walk>>

\* the transaction commits: the created row is now the work of a successful
\* CreateCommit
TxCommit(t) ==
    /\ tx[t].pc = "inserted"
    /\ commits' = commits \cup tx[t].rows
    /\ ancestry' = ancestry \cup tx[t].edges
    /\ created' = [k \in DOMAIN created |->
                      created[k] + Cardinality({r \in tx[t].rows : r.commit_id = k})]
    /\ EndTx(t, "Commit", NoErr, {})
    /\ UNCHANGED <<nextId, walk>>

TxRollback(t) ==
    /\ tx[t].pc \in {"probed", "inserted"}
    /\ EndTx(t, "Rollback", NoErr, {})
    /\ UNCHANGED <<commits, ancestry, nextId, created, walk>>

InitConc ==
    /\ commits = {}
    /\ ancestry = {}
    /\ nextId = 1
    /\ ret = Call("", NoErr, {}, NoID)
    /\ created = NoneCreated
    /\ tx = [t \in Txs |-> Idle]
    /\ walk = NoWalk

\* DeleteCommit runs in a transaction of its own that commits at once.
NextConc ==
    \/ \E t \in Txs, c \in DataCommits :
        TxCreateCommitProbe(t, CommitInfo(c, "USER", NilCommit, {}))
    \/ \E t \in Txs : TxCreateCommitInsert(t)
    \/ \E t \in Txs : TxCommit(t)
    \/ \E t \in Txs : TxRollback(t)
    \/ \E c \in DataCommits : DoDeleteCommit(c)

SpecConc == InitConc /\ [][NextConc]_vars

---------------------------------------------------------------------------
(* One ancestry walk over a graph that CreateCommit calls have built *)

\* the commit created i-th
WalkCommit(i) == Handle("default", "data", "user", "c" \o ToString(i))

\* every way to give each commit no parent (0), an earlier commit or itself
ParentChoices ==
    {f \in [1..MaxChain -> 0..MaxChain] : \A i \in 1..MaxChain : f[i] <= i}

RECURSIVE CreateAll(_, _, _)
\* CreateCommit of the commits i..MaxChain in turn, as children of parentOf
CreateAll(db, i, parentOf) ==
    IF i > MaxChain THEN db
    ELSE CreateAll(
            CreateCommit(db,
                CommitInfo(WalkCommit(i), "USER",
                           IF parentOf[i] = 0 THEN NilCommit
                           ELSE WalkCommit(parentOf[i]), {}),
                NoSkip).db,
            i + 1, parentOf)

WalkDepths == (0..MaxChain) \cup {MaxSearchDepth, MaxSearchDepth + 1}

InitWalk ==
    \E parentOf \in ParentChoices, startId \in 1..MaxChain, maxDepth \in WalkDepths :
        \E db \in {CreateAll(DB({}, {}, 1), 1, parentOf)} :
            /\ commits = db.commits
            /\ ancestry = db.ancestry
            /\ nextId = db.nextId
            /\ ret = Call("", NoErr, {}, NoID)
            /\ created = NoneCreated
            /\ tx = NoTx
            /\ walk = [pc |-> "call", start |-> startId, maxDepth |-> maxDepth,
                       cb |-> NeverFails, calls |-> <<>>, ended |-> FALSE]

DoForEachCommitAncestor ==
    /\ walk # NoWalk
    /\ walk.pc = "call"
    /\ \E r \in {ForEachCommitAncestor(Now, walk.start, walk.maxDepth, walk.cb)} :
        /\ walk' = [walk EXCEPT !.pc = "done", !.calls = r.calls, !.ended = r.ended]
        /\ ret' = Call("ForEachCommitAncestor", r.err, {}, walk.start)
    /\ UNCHANGED <<commits, ancestry, nextId, created, tx>>

NextWalk == DoForEachCommitAncestor

SpecWalk == InitWalk /\ [][NextWalk]_vars

---------------------------------------------------------------------------
(* One ancestry walk, with a callback that may fail, over a relation that  *)
(* may hold a cycle                                                        *)

\* every commit but the first has the commit before it as its parent
ChainParents == [i \in 1..MaxChain |-> i - 1]

\* The chain 1 <- 2 <- ... <- MaxChain built by CreateCommit calls; then
\* CreateCommitParent gives commit 1 the parent `close` (0: no such call),
\* which closes a cycle through the commits 1..close.
ClosedChain(close) ==
    LET db == CreateAll(DB({}, {}, 1), 1, ChainParents)
    IN  IF close = 0 THEN db
        ELSE CreateCommitParent(db, WalkCommit(close), 1).db

\* callbacks that never fail, that break, and that fail with an error of
\* their own, early and at the last call of a full search
WalkCallbacks ==
    {NeverFails} \cup {Callback(k, e) : k \in {1, 2, MaxSearchDepth},
                                        e \in {"ErrBreak", "cb failed"}}

InitWalkAny ==
    \E close \in 0..MaxChain, startId \in 1..MaxChain, maxDepth \in WalkDepths,
       cb \in WalkCallbacks :
        \E db \in {ClosedChain(close)} :
            /\ commits = db.commits
            /\ ancestry = db.ancestry
            /\ nextId = db.nextId
            /\ ret = Call("", NoErr, {}, NoID)
            /\ created = NoneCreated
            /\ tx = NoTx
            /\ walk = [pc |-> "call", start |-> startId, maxDepth |-> maxDepth,
                       cb |-> cb, calls |-> <<>>, ended |-> FALSE]

SpecWalkAny == InitWalkAny /\ [][NextWalk]_vars

---------------------------------------------------------------------------
(* One lookup of a commit in tables that CreateCommit calls have built *)

Faults == {"row", "parent", "children"}

\* no query fails, or one does
FaultSets == {{}} \cup {{f} : f \in Faults}

\* the commits of the graph, and one that has no row
LookupCommits == {WalkCommit(i) : i \in 1..(MaxChain + 1)}

\* CommitID(0), the int_ids of the rows, and one that has no row
LookupIDs == 0..(MaxChain + 1)

\* One lookup per behaviour (ret.op = "" before it).
\* "row": the commit asked for has a row; "fault:q": the database fails the
\* query q.  ret.id is the int_id asked for, the int_id of the row of the key
\* for a lookup by key.
LookupTags(id, faults) ==
    Tag(id \in RowIDs(commits), "row") \cup {"fault:" \o f : f \in faults}

\* a lookup has returned r; it writes nothing
Looks(r, op, id, faults) ==
    /\ ret' = Looked(op, r, LookupTags(id, faults), id)
    /\ UNCHANGED <<commits, ancestry, nextId, created, tx, walk>>

DoGetCommit(id, faults) ==
    /\ ret.op = ""
    /\ \E r \in {GetCommit(Faulty(Now, faults), id)} : Looks(r, "GetCommit", id, faults)

DoGetCommitInfo(id, faults) ==
    /\ ret.op = ""
    /\ \E r \in {GetCommitInfo(Faulty(Now, faults), id)} :
        Looks(r, "GetCommitInfo", id, faults)

DoGetCommitByKey(commit, faults) ==
    /\ ret.op = ""
    /\ \E r \in {GetCommitByKey(Faulty(Now, faults), commit)} :
        Looks(r, "GetCommitByKey",
              IF HasRow(commits, commit) THEN SelectIntID(Now, CommitKey(commit)) ELSE NoID,
              faults)

DoGetCommitParent(childCommit, faults) ==
    /\ ret.op = ""
    /\ \E r \in {GetCommitParent(Faulty(Now, faults), childCommit)} :
        Looks(r, "GetCommitParent", childCommit, faults)

DoGetCommitChildren(parentCommit, faults) ==
    /\ ret.op = ""
    /\ \E r \in {GetCommitChildren(Faulty(Now, faults), parentCommit)} :
        Looks(r, "GetCommitChildren", parentCommit, faults)

InitGet ==
    \E parentOf \in ParentChoices :
        \E db \in {CreateAll(DB({}, {}, 1), 1, parentOf)} :
            /\ commits = db.commits
            /\ ancestry = db.ancestry
            /\ nextId = db.nextId
            /\ ret = Call("", NoErr, {}, NoID)
            /\ created = NoneCreated
            /\ tx = NoTx
            /\ walk = NoWalk

NextGet ==
    \/ \E id \in LookupIDs, f \in FaultSets : DoGetCommit(id, f)
    \/ \E id \in LookupIDs, f \in FaultSets : DoGetCommitInfo(id, f)
    \/ \E c \in LookupCommits, f \in FaultSets : DoGetCommitByKey(c, f)
    \/ \E id \in LookupIDs, f \in FaultSets : DoGetCommitParent(id, f)
    \/ \E id \in LookupIDs, f \in FaultSets : DoGetCommitChildren(id, f)

SpecGet == InitGet /\ [][NextGet]_vars

---------------------------------------------------------------------------
(* One CreateCommit call, with any input, on the rows of a parent and its  *)
(* child                                                                   *)

DataCommit(id) == Handle("default", "data", "user", id)

CreateOrigins == OriginKinds \cup {"nil", "ORIGIN_KIND_9"}

\* timestamps of a CommitInfo: 0 is nil
CreateTimes == {[started |-> s, finishing |-> f, finished |-> g] :
                    s \in {0, 1}, f \in {0, 2}, g \in {0, 3}}

\* c1 and c2 have rows (c2 is the child of c1), c3 and c4 have none
CreateInfos ==
    {[CommitInfo(c, o, p, k) EXCEPT !.started = t.started,
                                    !.finishing = t.finishing,
                                    !.finished = t.finished] :
        c \in {NilCommit, NoRepoCommit, GhostCommit, DataCommit("c1"), DataCommit("c3")},
        o \in CreateOrigins,
        p \in {NilCommit, DataCommit("c2"), DataCommit("c3"), DataCommit("c4")},
        k \in {{}, {DataCommit("c1")}, {DataCommit("c4")},
               {DataCommit("c1"), DataCommit("c4")}},
        t \in CreateTimes}

CreateOpts == {AncestryOpt(p, k) : p \in BOOLEAN, k \in BOOLEAN}

\* ret of the call: the error, and in ret.out the arguments and the id returned
DoCreateCommitWith(info, opt) ==
    /\ \E r \in {CreateCommit(Now, info, opt)} :
        /\ r.db.nextId <= MaxCommitId + 1
        /\ commits' = IF r.aborted THEN commits ELSE r.db.commits
        /\ ancestry' = IF r.aborted THEN ancestry ELSE r.db.ancestry
        /\ nextId' = r.db.nextId
        /\ ret' = [Call("CreateCommit", r.err, {}, r.id)
                      EXCEPT !.out = [info |-> info, opt |-> opt]]
    /\ UNCHANGED <<created, tx, walk>>

\* one call, on the tables of InitUpdate
NextCreate ==
    /\ ret.op = ""
    /\ \E info \in CreateInfos, opt \in CreateOpts : DoCreateCommitWith(info, opt)

SpecCreate == InitUpdate /\ [][NextCreate]_vars

---------------------------------------------------------------------------
(* One PickCommit call, over forests that CreateCommit calls have built and *)
(* over a chain that is longer than one batch of the walk                  *)

\* every way to give each commit no parent (0) or an earlier commit
ForestParents == {f \in ParentChoices : \A i \in 1..MaxChain : f[i] < i}

\* the commits of the long chain: a head, and ancestors for one batch and one
\* more edge
LongLen == MaxSearchDepth + 2

\* The tables after CreateCommit of the commits 1..n in turn, each the child
\* of the one before: the row of commit i is the row CreateCommit inserts with
\* the sequence at i, its edge the one CreateCommitParent inserts.
ChainTables(n) ==
    DB(UNION {CreateCommit(DB({}, {}, i),
                           CommitInfo(WalkCommit(i), "USER", NilCommit, {}),
                           NoSkip).db.commits : i \in 1..n},
       {<<i, i + 1>> : i \in 1..(n - 1)},
       n + 1)

DataRepo == RepoPicker("default", "data", "user")

GhostRepo == RepoPicker("default", "ghost", "user")

Master == BranchPicker(DataRepo, "master")

NoBranch == BranchPicker(DataRepo, "dev")

\* pickers that do not walk: a commit with a row, one without, a repo without
\* a row, the head of a branch, a branch without a row, no picker, a picker
\* without a variant, a picker of an unknown variant
StartPickers ==
    {Id(DataRepo, WalkCommit(i).id) : i \in 0..MaxChain}
        \cup {Id(GhostRepo, "c1"), BranchHead(Master), BranchHead(NoBranch), NilPicker,
              UnsetPicker, UnknownPicker}

\* pickers that walk, as the start of another
NestedStarts == {AncestorOf(Id(DataRepo, WalkCommit(MaxChain).id), 1), BranchRoot(Master, 1)}

\* offsets up to one more than the longest chain has commits
Offsets == 0..(MaxChain + 1)

ForestPickers ==
    StartPickers
        \cup {AncestorOf(s, k) : s \in StartPickers \cup NestedStarts, k \in Offsets}
        \cup {BranchRoot(b, k) : b \in {Master, NoBranch}, k \in Offsets}

\* offsets of one batch, of one edge more, and of more edges than the long
\* chain has
LongOffsets == {MaxSearchDepth, MaxSearchDepth + 1, MaxSearchDepth + 2}

LongPickers ==
    {AncestorOf(BranchHead(Master), k) : k \in LongOffsets}
        \cup {BranchRoot(Master, k) : k \in {0} \cup LongOffsets}

PickCall(db, head, picker) ==
    /\ commits = db.commits
    /\ ancestry = db.ancestry
    /\ nextId = db.nextId
    /\ ret = Call("", NoErr, {}, NoID)
    /\ created = NoneCreated
    /\ tx = NoTx
    /\ walk = [pc |-> "call", head |-> head, picker |-> picker]

InitPick ==
    \/ \E db \in {CreateAll(DB({}, {}, 1), 1, parentOf) : parentOf \in ForestParents} :
        \E head \in 1..MaxChain, picker \in ForestPickers : PickCall(db, head, picker)
    \/ \E db \in {ChainTables(LongLen)} :
        \E picker \in LongPickers : PickCall(db, LongLen, picker)

\* the tables, the branch master having walk.head as its head
PickNow == WithHead(Now, WalkCommit(walk.head))

\* PickCommit(ctx, walk.picker, tx); a call that never returns makes no step
DoPickCommit ==
    /\ walk # NoWalk
    /\ walk.pc = "call"
    /\ \E r \in {PickCommit(PickNow, walk.picker)} :
        /\ ~r.diverged
        /\ ret' = Looked("PickCommit", r, {}, NoID)
    /\ walk' = [walk EXCEPT !.pc = "done"]
    /\ UNCHANGED <<commits, ancestry, nextId, created, tx>>

NextPick == DoPickCommit

SpecPick == InitPick /\ [][NextPick]_vars

---------------------------------------------------------------------------
(* Iteration over the commits: ListCommitTxByFilter and                    *)
(* ForEachCommitTxByFilter in the caller's transaction, whose tables do    *)
(* not change while the call runs, and ForEachCommit on the database       *)
(* handle, where other transactions commit between its page queries.       *)

\* the rows of the small tables
MaxRows == 3

\* origin and branch of a row
RowKinds == {<<"USER", "">>, <<"USER", "master">>, <<"AUTO", "">>, <<"AUTO", "master">>}

RECURSIVE CreateRows(_, _, _)
\* CreateCommit of the commits i..MaxRows in turn, commit i of kindOf[i]
CreateRows(db, i, kindOf) ==
    IF i > MaxRows THEN db
    ELSE CreateRows(
            CreateCommit(db,
                CommitInfo([WalkCommit(i) EXCEPT !.branch = kindOf[i][2]],
                           kindOf[i][1], NilCommit, {}),
                NoSkip).db,
            i + 1, kindOf)

\* the tables after CreateCommit of n commits without relatives
FlatTables(n) == DB(ChainTables(n).commits, {}, n + 1)

EmptyFilter == Handle("", "", "", "")

\* filters: nil, without a field, the repo, a repo without a row, a commit
\* set, a branch, a commit set of a branch, and one with Repo == nil
IterFilters ==
    {NilCommit, EmptyFilter, Handle("default", "data", "user", ""),
     Handle("", "ghost", "", ""), Handle("", "data", "", "c1"),
     [EmptyFilter EXCEPT !.branch = "master"],
     [Handle("default", "data", "user", "c2") EXCEPT !.branch = "master"],
     [EmptyFilter EXCEPT !.hasRepo = FALSE, !.id = "c3"]}

IterOrderBys ==
    {<<>>,
     <<OrderByCommitColumn(CommitColumnID, SortOrderAsc)>>,
     <<OrderByCommitColumn(CommitColumnID, SortOrderDesc)>>,
     <<OrderByCommitColumn(CommitColumnOrigin, SortOrderAsc)>>,
     <<OrderByCommitColumn(CommitColumnOrigin, SortOrderDesc)>>,
     <<OrderByCommitColumn(CommitColumnRepoID, SortOrderDesc)>>,
     <<OrderByCommitColumn(CommitColumnOrigin, SortOrderDesc),
       OrderByCommitColumn(CommitColumnID, SortOrderDesc)>>}

IterCallbacks == {NeverFails, Callback(2, "cb:failed")}

\* orderings of the calls on the large tables: the default, one without
\* ties and one on which all rows tie
LongOrderBys ==
    {<<>>,
     <<OrderByCommitColumn(CommitColumnID, SortOrderDesc)>>,
     <<OrderByCommitColumn(CommitColumnOrigin, SortOrderAsc)>>}

IterCall(db, op, filter, orderBys, cb, pageSize) ==
    /\ commits = db.commits
    /\ ancestry = db.ancestry
    /\ nextId = db.nextId
    /\ ret = Call("", NoErr, {}, NoID)
    /\ created = NoneCreated
    /\ tx = NoTx
    /\ walk = [pc |-> "call", op |-> op, filter |-> filter, orderBys |-> orderBys,
               cb |-> cb, it |-> NewCommitsIterator(0, pageSize, filter, orderBys),
               calls |-> <<>>, others |-> 0]

InitIter ==
    \/ \E db \in {CreateRows(DB({}, {}, 1), 1, kindOf) : kindOf \in [1..MaxRows -> RowKinds]} :
        \E filter \in IterFilters, orderBys \in IterOrderBys :
            \/ IterCall(db, "ListCommitTxByFilter", filter, orderBys, NeverFails,
                        commitsPageSize)
            \/ \E cb \in IterCallbacks :
                IterCall(db, "ForEachCommitTxByFilter", filter, orderBys, cb,
                         commitsPageSize)
    \/ \E db \in {FlatTables(commitsPageSize + 1)} :
        \E orderBys \in LongOrderBys :
            IterCall(db, "ListCommitTxByFilter", EmptyFilter, orderBys, NeverFails,
                     commitsPageSize)
    \/ \E db \in {FlatTables(ForEachCommitPageSize)} :
        \E orderBys \in LongOrderBys, cb \in IterCallbacks :
            IterCall(db, "ForEachCommit", NilCommit, orderBys, cb, ForEachCommitPageSize)

\* what an iteration hands back: its error and the int_ids it yielded in turn
Iterated(op, err, calls) ==
    Looked(op, [err |-> err, calls |-> calls], {}, NoID)

DoListCommitTxByFilter ==
    /\ walk # NoWalk
    /\ walk.pc = "call" /\ walk.op = "ListCommitTxByFilter"
    /\ \E plan \in TiePlans :
        \E r \in {ListCommitTxByFilter(Now, walk.filter, walk.orderBys, plan)} :
            ret' = Iterated(walk.op, r.err, r.calls)
    /\ walk' = [walk EXCEPT !.pc = "done"]
    /\ UNCHANGED <<commits, ancestry, nextId, created, tx>>

DoForEachCommitTxByFilter ==
    /\ walk # NoWalk
    /\ walk.pc = "call" /\ walk.op = "ForEachCommitTxByFilter"
    /\ \E plan \in TiePlans :
        \E r \in {ForEachCommitTxByFilter(Now, walk.filter, walk.cb, walk.orderBys, plan)} :
            ret' = Iterated(walk.op, r.err, r.calls)
    /\ walk' = [walk EXCEPT !.pc = "done"]
    /\ UNCHANGED <<commits, ancestry, nextId, created, tx>>

\* One turn of the loop of stream.ForEach in ForEachCommit: Next, then cb on
\* the commit it handed out.  The iterator reads the committed tables.
ForEachCommitNext ==
    /\ walk # NoWalk
    /\ walk.pc = "call" /\ walk.op = "ForEachCommit"
    /\ \E tie \in TieOrders :
        \E r \in {CommitIteratorNext(walk.it, Now, tie)} :
            IF r.err = EOS
                THEN /\ ret' = Iterated(walk.op, NoErr, walk.calls)
                     /\ walk' = [walk EXCEPT !.pc = "done"]
            ELSE IF r.err # NoErr
                THEN /\ ret' = Iterated(walk.op, r.err, walk.calls)
                     /\ walk' = [walk EXCEPT !.pc = "done"]
            ELSE IF walk.cb.failAt = Len(walk.calls) + 1
                THEN /\ ret' = Iterated(walk.op, walk.cb.err, Append(walk.calls, r.id))
                     /\ walk' = [walk EXCEPT !.pc = "done", !.it = r.it,
                                             !.calls = Append(@, r.id)]
            ELSE /\ ret' = ret
                 /\ walk' = [walk EXCEPT !.it = r.it, !.calls = Append(@, r.id)]
    /\ UNCHANGED <<commits, ancestry, nextId, created, tx>>

\* the transactions of others that commit while ForEachCommit runs
MaxOthers == 1

\* A page query sees what was committed before it, whatever row of the page
\* before the loop was at when the other transaction committed: the commit
\* of another transaction is taken when the rows of the page in hand have
\* all been handed out.
BetweenPages ==
    /\ walk # NoWalk
    /\ walk.pc = "call" /\ walk.op = "ForEachCommit"
    /\ walk.it.pageIdx = Len(walk.it.page)
    /\ walk.others < MaxOthers

\* another transaction creates a commit and commits
OtherCreateCommit ==
    /\ BetweenPages
    /\ \E r \in {CreateCommit(Now, CommitInfo(WalkCommit(nextId), "USER", NilCommit, {}),
                              NoSkip)} :
        /\ r.err = NoErr
        /\ commits' = r.db.commits
        /\ ancestry' = r.db.ancestry
        /\ nextId' = r.db.nextId
    /\ walk' = [walk EXCEPT !.others = @ + 1]
    /\ UNCHANGED <<ret, created, tx>>

\* another transaction deletes the oldest commit and commits
OtherDeleteCommit ==
    /\ BetweenPages
    /\ \E r \in {DeleteCommit(Now, WalkCommit(1))} :
        /\ r.err = NoErr
        /\ commits' = r.db.commits
        /\ ancestry' = r.db.ancestry
        /\ nextId' = r.db.nextId
    /\ walk' = [walk EXCEPT !.others = @ + 1]
    /\ UNCHANGED <<ret, created, tx>>

NextIter ==
    \/ DoListCommitTxByFilter
    \/ DoForEachCommitTxByFilter
    \/ ForEachCommitNext
    \/ OtherCreateCommit
    \/ OtherDeleteCommit

SpecIter == InitIter /\ [][NextIter]_vars

---------------------------------------------------------------------------
(* Watchers.  WatchCommits, WatchCommitsInRepo and WatchCommit subscribe   *)
(* to a channel, hand the rows of a snapshot to onUpsert and then turn the *)
(* events of the channel into callbacks.  The watcher of the postgres      *)
(* package, the triggers that notify the channels and stream.NewSlice are  *)
(* outside this package and are modelled as the specification describes    *)
(* them: a change of a commit row that another transaction commits puts    *)
(* one event on the channels of that row, in the order of the commits.     *)

EventInsert == "INSERT"

EventUpdate == "UPDATE"

EventDelete == "DELETE"

\* *postgres.Event
Event(type, id) == [Type |-> type, Id |-> id, Err |-> NoErr]

\* an event that carries an error, and one of a type the switch does not know
FailedEvent == [Type |-> "ERROR", Id |-> NoID, Err |-> "event:failed"]

UnknownEvent == [Type |-> "OTHER", Id |-> 1, Err |-> NoErr]

\* the channel of the watcher (CommitsChannelName, CommitsInRepoChannel(repoID),
\* CommitChannelName + commitID) is notified of a change of this row
Hears(op, arg, row) ==
    \/ op = "WatchCommits"
    \/ op = "WatchCommitsInRepo" /\ row.repo_id = arg
    \/ op = "WatchCommit" /\ row.int_id = arg

\* ctx.Err() of a cancelled context
ContextCanceled == "context.Canceled"

WatcherClosed == "errors.Errorf:watcher closed"

UnknownEventType == "errors.Errorf:unknown event type"

\* the snapshot of WatchCommits and WatchCommitsInRepo: a CommitIterator on the
\* database handle
IteratorSnapshot(it) == [kind |-> "iterator", it |-> it, items |-> <<>>, idx |-> 0]

\* stream.NewSlice(items)
NewSlice(items) ==
    [kind |-> "slice", it |-> newPageIterator(Query({}, <<>>), 0, 0), items |-> items,
     idx |-> 0]

\* the snapshot of WatchCommits
AllCommitsSnapshot ==
    IteratorSnapshot(
        NewCommitsIterator(0, commitsPageSize, NilCommit,
                           <<OrderByCommitColumn(CommitColumnID, SortOrderAsc)>>))

\* the snapshot of WatchCommitsInRepo: getCommit WHERE commit.repo_id = ?
\* ORDER BY commit.int_id ASC
RepoCommitsSnapshot(repoID) ==
    IteratorSnapshot(
        newPageIterator(
            Query({Condition(CommitColumnRepoID, repoID)},
                  <<OrderByCommitColumn(CommitColumnID, SortOrderAsc)>>),
            0, commitsPageSize))

\* The rows that snapshot.Next hands out until it has to ask the database
\* again: the items of the slice that are left, or the next page of the
\* query, each row with its relatives read.  The two orderings are on
\* int_id, which no two rows share, so the order of ties never shows.
SnapshotPage(snapshot, db) ==
    IF snapshot.kind = "slice"
        THEN SubSeq(snapshot.items, snapshot.idx + 1, Len(snapshot.items))
    ELSE LET page == SelectPage(db, snapshot.it.query, snapshot.it.limit,
                                snapshot.it.offset, "up")
         IN  [i \in 1..Len(page) |-> getCommitFromCommitRow(db, page[i])]

\* the snapshot when Next has handed out n rows of the page rows
Advanced(snapshot, rows, n) ==
    IF snapshot.kind = "slice" THEN [snapshot EXCEPT !.idx = @ + n]
    ELSE [snapshot EXCEPT !.it.page = [i \in 1..Len(rows) |-> rows[i].id],
                          !.it.pageIdx = n,
                          !.it.offset = @ + snapshot.it.limit,
                          !.it.revision = @ + n]

\* a call of onUpsert or onDelete: the callback, the id it is handed, the
\* commit it is handed (onUpsert), whether it comes from the snapshot or from
\* an event, and the error it returns
Invocation(cb, id, commit, from, err) ==
    [cb |-> cb, id |-> id, commit |-> commit, from |-> from, err |-> err]

\* the calls of callback cb in a log
CallsOf(log, cb) == SelectSeq(log, LAMBDA c : c.cb = cb)

\* the error the next call of the handler returns: handlers fail like cb
\* above, at their failAt-th call
HandlerErr(handler, log, cb) ==
    IF handler.failAt = Len(CallsOf(log, cb)) + 1 THEN handler.err ELSE NoErr

\* the callback that the delta loop invokes for an event type
HandlerOfAny(type) == "onUpsert"

HandlerOf(type) == IF type = EventDelete THEN "onDelete" ELSE "onUpsert"

\* the delta loop runs while the snapshot is handed out
DeltaRunsEarly(w) == w.pc \in {"snapshot", "delta"}

\* the delta loop runs after stream.ForEach over the snapshot has returned nil
DeltaRuns(w) == w.pc = "delta"

\* the error of a callback is logged and the watcher goes on
AbortsNever(err) == FALSE

\* an error of a callback ends the watcher
Aborts(err) == err # NoErr

\* the watcher returns nil when its context is cancelled
CancelledIsNil == NoErr

\* errors.Wrap(ctx.Err(), "watcher cancelled")
Cancelled == ContextCanceled

\* no commit: what onDelete is handed besides the id
NoCommit == NotFound(NoErr)

\* the CommitInfo of a Commit{ID, CommitInfo}
InfoOf(c) == [c EXCEPT !.id = NoID, !.parentID = NoID, !.childrenIDs = {}]

\* a lookup whose error is dropped
LookupInTxLenient(cancelled, db, id) == [GetCommitInfo(db, id) EXCEPT !.err = NoErr]

\* dbutil.WithTx(ctx, db, GetCommitInfo(id)): a cancelled context fails the
\* transaction with the error of the context
LookupInTx(cancelled, db, id) ==
    IF cancelled THEN NotFound(ContextCanceled) ELSE GetCommitInfo(db, id)

\* the in-scope rows: those a query of the snapshot selects
InScope(snapshot, db) ==
    {r.int_id : r \in {q \in db.commits : Where(snapshot.it.query.conditions, q)}}

---------------------------------------------------------------------------
(* SpecWatch: one watcher, from the moment it has subscribed, and the      *)
(* transactions of others that commit while it runs.                       *)

\* the changes, closes and cancellations that happen while a watcher runs
MaxEvents == 2

WatchHandlers ==
    {<<NeverFails, NeverFails>>,
     <<Callback(2, "onUpsert:failed"), NeverFails>>,
     <<NeverFails, Callback(1, "onDelete:failed")>>}

\* walk of a watcher: pc is "start" (WatchCommit looks its commit up),
\* "snapshot", "delta" or "returned"; events is the channel, closed and
\* cancelled the state of the channel and of ctx; log the calls of the
\* handlers so far; taken the events received; last the event received
\* last; alive the in-scope commits at the first query of the snapshot;
\* subscribed whether the listener holds the subscription of the watcher.
\* postgres.NewWatcher is the first statement of the three functions: the
\* watcher is subscribed when it starts to read.
WatchCall(db, op, arg, snapshot, handlers, others) ==
    /\ commits = db.commits
    /\ ancestry = db.ancestry
    /\ nextId = db.nextId
    /\ ret = Call("", NoErr, {}, NoID)
    /\ created = NoneCreated
    /\ tx = NoTx
    /\ walk = [pc |-> IF op = "WatchCommit" THEN "start" ELSE "snapshot",
               op |-> op, arg |-> arg, snapshot |-> snapshot, eos |-> FALSE,
               events |-> <<>>, closed |-> FALSE, cancelled |-> FALSE,
               onUpsert |-> handlers[1], onDelete |-> handlers[2],
               log |-> <<>>, taken |-> 0, last |-> Event("", NoID),
               asked |-> FALSE, alive |-> {}, others |-> others,
               subscribed |-> TRUE]

InitWatch ==
    \/ \E db \in {DB({}, {}, 1), ChainTables(2)}, handlers \in WatchHandlers :
        \/ WatchCall(db, "WatchCommits", NoID, AllCommitsSnapshot, handlers, 0)
        \/ \E repoID \in {1, 2} :
            WatchCall(db, "WatchCommitsInRepo", repoID, RepoCommitsSnapshot(repoID),
                      handlers, 0)
        \/ \E commitID \in {1, 3} :
            WatchCall(db, "WatchCommit", commitID, NewSlice(<<>>), handlers, 0)
    \/ \E db \in {FlatTables(commitsPageSize + 1)} :
        WatchCall(db, "WatchCommits", NoID, AllCommitsSnapshot,
                  <<NeverFails, NeverFails>>, MaxEvents - 1)

\* a return without the deferred watcher.Close()
CloseForgotten(w) == w

\* defer watcher.Close(): the subscription is released
Close(w) == [w EXCEPT !.subscribed = FALSE]

\* the watcher w at its return, the deferred call run
Returned(w) == Close([w EXCEPT !.pc = "returned"])

\* the watcher returns err
WatcherReturns(err) ==
    /\ ret' = Call(walk.op, err, {}, walk.arg)
    /\ walk' = Returned(walk)

\* WatchCommit: GetCommitInfo of its commit in a transaction, then the slice
\* of that one commit as the snapshot
WatchCommitLookup ==
    /\ walk # NoWalk
    /\ walk.pc = "start"
    /\ \E c \in {LookupInTx(walk.cancelled, Now, walk.arg)} :
        IF c.err # NoErr
            THEN WatcherReturns(c.err)
        ELSE /\ walk' = [walk EXCEPT !.pc = "snapshot", !.asked = TRUE, !.alive = {walk.arg},
                                     !.snapshot = NewSlice(<<[c EXCEPT !.id = walk.arg]>>)]
             /\ ret' = ret
    /\ UNCHANGED <<commits, ancestry, nextId, created, tx>>

\* stream.ForEach over the snapshot, a page at a time: Next hands out the
\* rows of the page in turn and onUpsert is called on each; Next or onUpsert
\* failing ends the watcher, and at EOS the watcher enters its delta loop.
WatchSnapshotPage ==
    /\ walk # NoWalk
    /\ walk.pc = "snapshot"
    /\ \E rows \in {SnapshotPage(walk.snapshot, Now)} :
        LET errAt(i) == IF walk.onUpsert.failAt = Len(walk.log) + i
                            THEN walk.onUpsert.err ELSE NoErr
            calls(n) == [i \in 1..n |->
                            Invocation("onUpsert", rows[i].id, InfoOf(rows[i]),
                                       "snapshot", errAt(i))]
            bad      == {i \in 1..Len(rows) : rows[i].err # NoErr}
            stops    == bad \cup {i \in 1..Len(rows) : Aborts(errAt(i))}
            k        == CHOOSE i \in stops : \A j \in stops : i <= j
            seen     == IF walk.asked THEN walk.alive ELSE InScope(walk.snapshot, Now)
            asked    == [walk EXCEPT !.asked = TRUE, !.alive = seen]
        IN  IF walk.snapshot.kind = "iterator" /\ walk.cancelled
                THEN WatcherReturns(ContextCanceled)
            ELSE IF rows = <<>>
                THEN /\ walk' = [asked EXCEPT !.pc = "delta", !.eos = TRUE]
                     /\ ret' = ret
            ELSE IF stops = {}
                THEN /\ walk' = [asked EXCEPT
                                    !.snapshot = Advanced(@, rows, Len(rows)),
                                    !.log = @ \o calls(Len(rows))]
                     /\ ret' = ret
            ELSE IF k \in bad
                THEN /\ walk' = Returned([asked EXCEPT
                                              !.snapshot = Advanced(@, rows, k - 1),
                                              !.log = @ \o calls(k - 1)])
                     /\ ret' = Call(walk.op, rows[k].err, {}, walk.arg)
            ELSE /\ walk' = Returned([asked EXCEPT
                                          !.snapshot = Advanced(@, rows, k),
                                          !.log = @ \o calls(k)])
                 /\ ret' = Call(walk.op, errAt(k), {}, walk.arg)
    /\ UNCHANGED <<commits, ancestry, nextId, created, tx>>

\* case event, ok := <-events of the select of the delta loop
WatchEvent ==
    /\ walk # NoWalk
    /\ walk.pc # "returned" /\ DeltaRuns(walk)
    /\ walk.events # <<>> \/ walk.closed
    /\ IF walk.events = <<>>
        THEN WatcherReturns(WatcherClosed)
       ELSE \E event \in {Head(walk.events)} :
            \E c \in {LookupInTx(walk.cancelled, Now, event.Id)} :
            LET cb     == HandlerOf(event.Type)
                err    == IF cb = "onDelete"
                              THEN HandlerErr(walk.onDelete, walk.log, "onDelete")
                          ELSE HandlerErr(walk.onUpsert, walk.log, "onUpsert")
                call   == Invocation(cb, event.Id,
                                     IF cb = "onDelete" THEN NoCommit ELSE c,
                                     "event", err)
                heard  == [walk EXCEPT !.events = Tail(@), !.taken = @ + 1,
                                       !.last = event]
                return(e, w) == /\ ret' = Call(walk.op, e, {}, walk.arg)
                                /\ walk' = Returned(w)
            IN  IF event.Err # NoErr
                    THEN return(event.Err, heard)
                ELSE IF event.Type \notin {EventDelete, EventInsert, EventUpdate}
                    THEN return(UnknownEventType, heard)
                ELSE IF cb = "onUpsert" /\ c.err # NoErr
                    THEN return(c.err, heard)
                ELSE IF Aborts(err)
                    THEN return(err, [heard EXCEPT !.log = Append(@, call)])
                ELSE /\ walk' = [heard EXCEPT !.log = Append(@, call)]
                     /\ ret' = ret
    /\ UNCHANGED <<commits, ancestry, nextId, created, tx>>

\* case <-ctx.Done() of the select of the delta loop
WatchCancelled ==
    /\ walk # NoWalk
    /\ walk.pc = "delta"
    /\ walk.cancelled
    /\ WatcherReturns(Cancelled)
    /\ UNCHANGED <<commits, ancestry, nextId, created, tx>>

\* Something happens around the watcher.  A page query sees what was
\* committed before it, and the watcher looks at its channel and at ctx for
\* itself only in the delta loop: what happens while the rows of a page are
\* handed out is taken when the page is exhausted.
Around ==
    /\ walk # NoWalk
    /\ walk.pc \in {"start", "snapshot", "delta"}
    /\ walk.others < MaxEvents

\* the watcher subscribes when its snapshot has been read
SubscribedLate(w) == w.subscribed /\ w.eos

\* the listener holds the subscription of the watcher: from NewWatcher,
\* before the snapshot, to Close
Subscribed(w) == w.subscribed

\* the channel of the watcher after a change of row of type type
Notified(type, row) ==
    IF Subscribed(walk) /\ Hears(walk.op, walk.arg, row) /\ ~walk.closed
        THEN Append(walk.events, Event(type, row.int_id))
    ELSE walk.events

\* the commits that the transactions of others delete and update: the
\* oldest and the newest
Targets == {1, nextId - 1}

\* another transaction creates a commit and commits: INSERT
WatchedCreateCommit ==
    /\ Around
    /\ \E r \in {CreateCommit(Now, CommitInfo(WalkCommit(nextId), "USER", NilCommit, {}),
                              NoSkip)} :
        /\ r.err = NoErr
        /\ commits' = r.db.commits
        /\ ancestry' = r.db.ancestry
        /\ nextId' = r.db.nextId
        /\ walk' = [walk EXCEPT !.others = @ + 1,
                       !.events = Notified(EventInsert,
                                           CHOOSE q \in r.db.commits : q.int_id = nextId)]
    /\ UNCHANGED <<ret, created, tx>>

\* another transaction deletes a commit and commits: DELETE
WatchedDeleteCommit ==
    /\ Around
    /\ \E id \in Targets :
        /\ \E q \in commits : q.int_id = id
        /\ \E r \in {DeleteCommit(Now, WalkCommit(id))} :
            /\ r.err = NoErr
            /\ commits' = r.db.commits
            /\ ancestry' = r.db.ancestry
            /\ nextId' = r.db.nextId
            /\ walk' = [walk EXCEPT !.others = @ + 1,
                           !.events = Notified(EventDelete,
                                               CHOOSE q \in commits : q.int_id = id)]
    /\ UNCHANGED <<ret, created, tx>>

\* another transaction updates a commit and commits: UPDATE
WatchedUpdateDescription ==
    /\ Around
    /\ \E id \in Targets :
        /\ \E q \in commits : q.int_id = id
        /\ \E r \in {UpdateDescription(Now, id, "edited")} :
            /\ r.err = NoErr
            /\ commits' = r.db.commits
            /\ ancestry' = r.db.ancestry
            /\ nextId' = r.db.nextId
            /\ walk' = [walk EXCEPT !.others = @ + 1,
                           !.events = Notified(EventUpdate,
                                               CHOOSE q \in commits : q.int_id = id)]
    /\ UNCHANGED <<ret, created, tx>>

\* the listener reports an error, or an event of another type
WatchedOddEvent ==
    /\ Around
    /\ ~walk.closed
    /\ \E event \in {FailedEvent, UnknownEvent} :
        walk' = [walk EXCEPT !.others = @ + 1, !.events = Append(@, event)]
    /\ UNCHANGED <<commits, ancestry, nextId, ret, created, tx>>

\* the channel of the watcher is closed
WatchedClose ==
    /\ Around
    /\ ~walk.closed
    /\ walk' = [walk EXCEPT !.others = @ + 1, !.closed = TRUE]
    /\ UNCHANGED <<commits, ancestry, nextId, ret, created, tx>>

\* the caller cancels ctx
WatchedCancel ==
    /\ Around
    /\ ~walk.cancelled
    /\ walk' = [walk EXCEPT !.others = @ + 1, !.cancelled = TRUE]
    /\ UNCHANGED <<commits, ancestry, nextId, ret, created, tx>>

NextWatch ==
    \/ WatchCommitLookup
    \/ WatchSnapshotPage
    \/ WatchEvent
    \/ WatchCancelled
    \/ WatchedCreateCommit
    \/ WatchedDeleteCommit
    \/ WatchedUpdateDescription
    \/ WatchedOddEvent
    \/ WatchedClose
    \/ WatchedCancel

SpecWatch == InitWatch /\ [][NextWatch]_vars

---------------------------------------------------------------------------
(* Properties of the ancestry relation *)

LinkOps == {"CreateCommitParent", "CreateCommitAncestries", "CreateCommitChildren"}

RECURSIVE AncestorsWithin(_, _, _)
\* the commits reached from the set S by following 1..n parent edges
AncestorsWithin(anc, S, n) ==
    IF n = 0 THEN {}
    ELSE LET P == {e[1] : e \in {x \in anc : x[2] \in S}}
         IN  P \cup AncestorsWithin(anc, P, n - 1)

\* C1: a successful DeleteCommit(X) removes the row of X; when X had a parent
\* P and children, the relation afterwards holds (P, C) for every child C of
\* X and no edge that mentions X.
C1_DeleteRepoints ==
    [][(ret'.op = "DeleteCommit" /\ ret'.err = NoErr) =>
        /\ Cardinality(commits \ commits') = 1
        /\ commits' \subseteq commits
        /\ \A x \in RowIDs(commits \ commits') :
            (ParentsOf(ancestry, x) # {} /\ ChildrenOf(ancestry, x) # {}) =>
                /\ \A p \in ParentsOf(ancestry, x), c \in ChildrenOf(ancestry, x) :
                    <<p, c>> \in ancestry'
                /\ \A e \in ancestry' : e[1] # x /\ e[2] # x]_vars

\* a DeleteCommit of a commit with a parent and children has succeeded
C1_Witness ==
    /\ ret.op = "DeleteCommit" /\ ret.err = NoErr
    /\ {"parent", "children"} \subseteq ret.pre
    /\ ancestry # {}

\* C2: no commit is the child of two ancestry edges.
C2_AtMostOneParent ==
    \A e1 \in ancestry, e2 \in ancestry : e1[2] = e2[2] => e1 = e2

\* a link call that asked for a second parent of a commit has succeeded
C2_Witness ==
    /\ ret.op \in LinkOps /\ ret.err = NoErr
    /\ "taken" \in ret.pre
    /\ Cardinality(ancestry) >= 2

\* C3: the ancestry relation is acyclic (no commit is its own ancestor).
C3_Acyclic ==
    \A r \in commits :
        r.int_id \notin AncestorsWithin(ancestry, {r.int_id}, Cardinality(ancestry))

\* C4: both ends of every ancestry edge are int_ids of rows of pfs.commits;
\* so no edge mentions a commit that DeleteCommit has removed.
C4_EdgesReferenceCommits ==
    \A e \in ancestry :
        /\ \E r \in commits : r.int_id = e[1]
        /\ \E r \in commits : r.int_id = e[2]

\* a DeleteCommit of a commit that had edges has succeeded and edges remain
C4_Witness ==
    /\ ret.op = "DeleteCommit" /\ ret.err = NoErr
    /\ "children" \in ret.pre
    /\ ancestry # {}

\* C5 as stated: no key is produced by two successful CreateCommit calls.
C5_KeyProducedOnce ==
    \A k \in DOMAIN created : created[k] <= 1

\* C5, amended: at any moment at most one row, committed or inserted by a
\* transaction in flight, has a given key; a key is produced a second time
\* only after the row of the first has gone.
C5_OneRowPerKey ==
    \A r1 \in commits \cup UNION {tx[t].rows : t \in DOMAIN tx},
       r2 \in commits \cup UNION {tx[t].rows : t \in DOMAIN tx} :
        r1.commit_id = r2.commit_id => r1.int_id = r2.int_id

\* a key was created, deleted and created again by one of two transactions
\* that both probed it; the other has failed on the unique index
C5_Witness ==
    /\ ret.op = "CreateCommit" /\ ret.err = "db:unique:commit_id"
    /\ \E r \in commits : created[r.commit_id] = 2

\* C6: CreateCommit with valid info for a key that has a row returns
\* CommitAlreadyExists and changes neither table.
C6_AlreadyExistsNoChange ==
    [][(ret'.op = "CreateCommit" /\ {"valid", "exists"} \subseteq ret'.pre) =>
        /\ ret'.err = "CommitAlreadyExists"
        /\ commits' = commits
        /\ ancestry' = ancestry]_vars

\* CreateCommit was refused for an existing key with relatives passed
C6_Witness ==
    /\ ret.op = "CreateCommit" /\ ret.err = "CommitAlreadyExists"
    /\ {"valid", "exists", "relatives"} \subseteq ret.pre

\* C7: a link call all of whose edges are already in the table (the second
\* insert of the same edges) succeeds and leaves both tables as they are.
C7_RelinkIdempotent ==
    [][(ret'.op \in LinkOps /\ "dup" \in ret'.pre) =>
        /\ ret'.err = NoErr
        /\ ancestry' = ancestry
        /\ commits' = commits]_vars

\* an edge was inserted a second time
C7_Witness ==
    /\ ret.op \in LinkOps /\ ret.err = NoErr /\ "dup" \in ret.pre

UpdateOps == {"UpdateCommitBranch", "FinishingCommit", "FinishCommit",
              "UpdateCommitMetadata", "UpdateDescription"}

\* the columns each update names in its SET list
ListedColumns(op) ==
    CASE op = "UpdateCommitBranch" -> {"branch_id"}
      [] op = "FinishingCommit" -> {"finishing_time", "error"}
      [] op = "FinishCommit" -> {"finished_time", "error", "compacting_time_s",
                                 "validating_time_s", "size"}
      [] op = "UpdateCommitMetadata" -> {"metadata"}
      [] op = "UpdateDescription" -> {"description"}

\* C8: a targeted update changes at most its listed columns of the row with
\* the given int_id; every other column of that row, every other row and the
\* ancestry relation stay as they are.
C8_UpdateIsolation ==
    [][ret'.op \in UpdateOps =>
        /\ ancestry' = ancestry
        /\ Cardinality(commits') = Cardinality(commits)
        /\ \A r \in commits : \E s \in commits' :
            /\ s.int_id = r.int_id
            /\ \A c \in DOMAIN r :
                (r.int_id # ret'.id \/ c \notin ListedColumns(ret'.op)) => s[c] = r[c]]_vars

\* FinishCommit has succeeded on a row that had been given a description and
\* metadata, next to a row that no update has touched
C8_Witness ==
    /\ ret.op = "FinishCommit" /\ ret.err = NoErr
    /\ \E r \in commits, o \in commits :
        /\ r.int_id = ret.id /\ o.int_id # ret.id
        /\ r.finished_time = 3 /\ r.size = 1 /\ r.error = "failed"
        /\ r.description = "text" /\ r.metadata = "k=v" /\ r.finishing_time = 2
        /\ o.finished_time = 0 /\ o.description = "" /\ o.error = ""

\* C9: DeleteCommit of a key that has no row, and a targeted update of an
\* int_id that has no row, return CommitNotFound and change neither table.
C9_NotFoundNoChange ==
    [][((ret'.op \in UpdateOps \/ ret'.op = "DeleteCommit") /\ "norow" \in ret'.pre) =>
        /\ IsCommitNotFound(ret'.err)
        /\ commits' = commits
        /\ ancestry' = ancestry]_vars

\* an update has found no row for its id while other rows exist
C9_Witness ==
    /\ ret.op \in UpdateOps /\ "norow" \in ret.pre
    /\ ret.err = "CommitNotFound"
    /\ commits # {}

RECURSIVE Chain(_, _, _)
\* the edges met by following parent edges from c, n of them at most
Chain(anc, c, n) ==
    IF n = 0 \/ ParentsOf(anc, c) = {} THEN {}
    ELSE LET p == CHOOSE q \in ParentsOf(anc, c) : TRUE
         IN  {<<p, c>>} \cup Chain(anc, p, n - 1)

\* C10: with every commit having at most one parent, ForEachCommitAncestor
\* calls cb on exactly the edges of the parent chain from start down to depth
\* d', where d' is maxDepth when 1 <= maxDepth <= MaxSearchDepth and
\* MaxSearchDepth otherwise.  (A chain through a relation of n edges meets no
\* new edge after n steps.)  On the chain 1 <- 2 <- 3 <- 4 from 4, maxDepth 2
\* gives (3,4) and (2,3), and maxDepth 0 gives all three edges.
C10_WalkVisitsChain ==
    (walk # NoWalk /\ walk.pc = "done") =>
        LET d     == IF 1 <= walk.maxDepth /\ walk.maxDepth <= MaxSearchDepth
                     THEN walk.maxDepth ELSE MaxSearchDepth
            n     == IF d <= Cardinality(ancestry) THEN d ELSE Cardinality(ancestry)
            edges == {walk.calls[i] : i \in 1..Len(walk.calls)}
        IN  /\ ret.err = NoErr
            /\ edges = Chain(ancestry, walk.start, n)
            /\ (ancestry = {<<1, 2>>, <<2, 3>>, <<3, 4>>} /\ walk.start = 4) =>
                /\ walk.maxDepth = 2 => edges = {<<3, 4>>, <<2, 3>>}
                /\ walk.maxDepth = 0 => edges = {<<1, 2>>, <<2, 3>>, <<3, 4>>}

\* the walk from 4 over the chain 1 <- 2 <- 3 <- 4 with maxDepth 0 is done
C10_Witness ==
    /\ walk # NoWalk /\ walk.pc = "done"
    /\ ancestry = {<<1, 2>>, <<2, 3>>, <<3, 4>>}
    /\ walk.start = 4 /\ walk.maxDepth = 0
    /\ walk.calls = <<<<3, 4>>, <<2, 3>>, <<1, 2>>>>

\* C11: a ForEachCommitAncestor call ends (its query runs out of rows) and
\* calls cb at most maxDepth times, at most MaxSearchDepth times when maxDepth
\* is 0 or larger than MaxSearchDepth, also over a cycle or a self-edge.
C11_WalkBounded ==
    (walk # NoWalk /\ walk.pc = "done") =>
        /\ walk.ended
        /\ Len(walk.calls) <= (IF walk.maxDepth = 0 \/ walk.maxDepth > MaxSearchDepth
                               THEN MaxSearchDepth ELSE walk.maxDepth)

\* a walk round a cycle of two commits or more, asked to go deeper than
\* MaxSearchDepth, is done after MaxSearchDepth calls of cb
C11_Witness ==
    /\ walk # NoWalk /\ walk.pc = "done"
    /\ walk.maxDepth > MaxSearchDepth /\ walk.cb = NeverFails
    /\ Len(walk.calls) = MaxSearchDepth
    /\ \E e \in ancestry : e[1] > e[2]
    /\ walk.calls[1] # walk.calls[2]

\* C12: when cb returns ErrBreak, ForEachCommitAncestor calls cb no more and
\* returns nil.
C12_BreakReturnsNil ==
    (/\ walk # NoWalk /\ walk.pc = "done"
     /\ walk.cb.err = "ErrBreak"
     /\ walk.cb.failAt >= 1 /\ Len(walk.calls) >= walk.cb.failAt) =>
        /\ Len(walk.calls) = walk.cb.failAt
        /\ ret.err = NoErr

\* C13: GetCommit, GetCommitInfo and GetCommitByKey of a commit that has a
\* row succeed when the commit has no parent edge or no child edge: they
\* return the parent (nil when there is no parent edge) and the children
\* (none when there is no child edge).  ParentCommitNotFound and
\* ChildCommitNotFound are never returned; another error of the parent or
\* children lookup is.
C13_MissingRelativesRecovered ==
    (/\ ret.op \in {"GetCommit", "GetCommitInfo", "GetCommitByKey"}
     /\ "row" \in ret.pre /\ "fault:row" \notin ret.pre) =>
        /\ ret.err \notin {"ParentCommitNotFound", "ChildCommitNotFound"}
        /\ ({"fault:parent", "fault:children"} \cap ret.pre # {}) <=> ret.err = DBFailed
        /\ ({"fault:parent", "fault:children"} \cap ret.pre = {}) =>
            /\ ret.err = NoErr
            /\ (\A e \in ancestry : e[2] # ret.id) => ret.out.parent = NilKey
            /\ \A e \in ancestry : e[2] = ret.id =>
                \E r \in commits : r.int_id = e[1] /\ r.commit_id = ret.out.parent
            /\ ret.out.children =
                {r.commit_id : r \in {q \in commits : <<ret.id, q.int_id>> \in ancestry}}

\* GetCommitByKey of the first commit, which has neither a parent nor a child
\* while other commits have, has returned it with a nil parent and no children
C13_Witness ==
    /\ ret.op = "GetCommitByKey" /\ ret.err = NoErr
    /\ ret.pre = {"row"}
    /\ ret.out.id = 1 /\ ret.out.key = CommitKey(WalkCommit(1))
    /\ ret.out.parent = NilKey /\ ret.out.children = {}
    /\ ancestry # {}

\* C14: after a successful CreateCommit of c2 with a parent c1 that has a row
\* and is not skipped, GetCommitParent(c2) returns c1 and GetCommitChildren(c1)
\* holds c2; and whatever GetCommitParent returns for a commit, it and the
\* matching GetCommitChildren return after every step that deletes neither
\* of the two commits.  (A step that changes neither table changes no result
\* of a lookup.)
C14_ParentLinkLasts ==
    [][LET before == DB(commits, ancestry, nextId)
           after  == DB(commits', ancestry', nextId')
       IN  /\ (ret'.op = "CreateCommit" /\ ret'.err = NoErr) =>
                \A c1 \in commits, c2 \in commits' \ commits :
                    ("parent:" \o c1.commit_id) \in ret'.pre =>
                        /\ GetCommitParent(after, c2.int_id).err = NoErr
                        /\ GetCommitParent(after, c2.int_id).commit = c1.commit_id
                        /\ c2.commit_id \in GetCommitChildren(after, c1.int_id).commits
           /\ (commits' # commits \/ ancestry' # ancestry) =>
              \A c2 \in commits \cap commits' :
                \A was \in {GetCommitParent(before, c2.int_id)} :
                    (was.err = NoErr /\ was.parent \in RowIDs(commits')) =>
                        /\ GetCommitParent(after, c2.int_id) = was
                        /\ c2.commit_id \in GetCommitChildren(after, was.parent).commits]_vars

\* c2 was created with the parent c1, a third commit was then created and
\* deleted, and c1 is still what GetCommitParent(c2) returns
C14_Witness ==
    /\ ret.op = "DeleteCommit" /\ ret.err = NoErr
    /\ nextId = 4
    /\ \E c1 \in commits, c2 \in commits :
        /\ c1.int_id = 1 /\ c2.int_id = 2
        /\ GetCommitParent(Now, 2).commit = c1.commit_id
        /\ GetCommitChildren(Now, 1).commits = {c2.commit_id}

\* C15: CreateCommit returns CommitMissingInfo for a nil commit handle,
\* otherwise for a nil repo, otherwise for a nil origin, and the typed
\* InvalidOrigin error for an origin kind that is none of UNKNOWN, USER, AUTO
\* and FSCK; in each case both tables stay as they are.
C15_ValidationRejects ==
    (ret.op = "CreateCommit" /\ ret.out # <<>>) =>
        LET info == ret.out.info
            same == commits = ParentAndChild.commits /\ ancestry = ParentAndChild.ancestry
        IN  /\ (~info.commit.ptr \/ ~info.commit.hasRepo \/ info.origin = "nil") =>
                ret.err = "CommitMissingInfo" /\ same
            /\ (/\ info.commit.ptr /\ info.commit.hasRepo
                /\ info.origin \notin OriginKinds \cup {"nil"}) =>
                ret.err = "InvalidOrigin" /\ same

\* C16: a CreateCommit that passes validation and the probe returns
\* ParentCommitNotFound when the parent passed has no row and SkipParent is
\* false, and ChildCommitNotFound when a child passed has no row and
\* SkipChildren is false.  With SkipParent (SkipChildren) true the call never
\* returns ParentCommitNotFound (ChildCommitNotFound), the only edges it
\* inserts are those to the children (the one from the parent), and it
\* succeeds unless the relatives that are not skipped make it fail.
C16_MissingRelativeOrSkip ==
    (/\ ret.op = "CreateCommit" /\ ret.out # <<>>
     /\ ret.out.info.commit = DataCommit("c3")
     /\ ret.out.info.origin \in OriginKinds) =>
        LET info  == ret.out.info
            opt   == ret.out.opt
            had   == {r.commit_id : r \in ParentAndChild.commits}
            badP  == /\ info.parent.ptr /\ ~opt.SkipParent
                     /\ info.parent # info.commit
                     /\ CommitKey(info.parent) \notin had
            badC  == /\ ~opt.SkipChildren
                     /\ \E c \in info.children :
                            c # info.commit /\ CommitKey(c) \notin had
            new   == ParentAndChild.nextId
            added == ancestry \ ParentAndChild.ancestry
        IN  /\ badP => ret.err = "ParentCommitNotFound"
            /\ (badC /\ ~badP) => ret.err = "ChildCommitNotFound"
            /\ (~badP /\ ~badC) => ret.err = NoErr
            /\ opt.SkipParent =>
                /\ ret.err # "ParentCommitNotFound"
                /\ added \subseteq
                    {<<new, SelectIntID(Now, CommitKey(c))>> : c \in info.children}
            /\ opt.SkipChildren =>
                /\ ret.err # "ChildCommitNotFound"
                /\ added \subseteq {<<SelectIntID(Now, CommitKey(info.parent)), new>>}

\* a call that skips a parent without a row has linked its child, and the row
\* and the edge are in the tables
C16_Witness ==
    /\ ret.op = "CreateCommit" /\ ret.out # <<>> /\ ret.err = NoErr
    /\ ret.out.opt = AncestryOpt(TRUE, FALSE)
    /\ ret.out.info.parent = DataCommit("c4")
    /\ ret.out.info.children = {DataCommit("c1")}
    /\ ancestry = {<<1, 2>>, <<3, 1>>}
    /\ Cardinality(commits) = 3

\* C17 as stated: after a successful CreateCommit the new commit is started:
\* its start time is set, its finishing and finished times are nil.
C17_CreatedIsStarted ==
    (ret.op = "CreateCommit" /\ ret.out # <<>> /\ ret.err = NoErr) =>
        \A r \in commits \ ParentAndChild.commits :
            r.start_time # 0 /\ r.finishing_time = 0 /\ r.finished_time = 0

\* C17, amended: after a successful CreateCommit the new row holds the
\* started, finishing and finished times of the CommitInfo passed, a nil one
\* as no time; so the commit is started exactly when the info passed is.
C17_TimesAsPassed ==
    (ret.op = "CreateCommit" /\ ret.out # <<>> /\ ret.err = NoErr) =>
        /\ Cardinality(commits \ ParentAndChild.commits) = 1
        /\ \A r \in commits \ ParentAndChild.commits :
            /\ r.int_id = ret.id
            /\ r.start_time = ret.out.info.started
            /\ r.finishing_time = ret.out.info.finishing
            /\ r.finished_time = ret.out.info.finished

\* a commit was created from an info without a start time and with a
\* finished time: its row is finished and has no start time
C17_Witness ==
    /\ ret.op = "CreateCommit" /\ ret.out # <<>> /\ ret.err = NoErr
    /\ ret.out.info.started = 0 /\ ret.out.info.finished = 3
    /\ \E r \in commits : r.int_id = ret.id /\ r.start_time = 0 /\ r.finished_time = 3

\* C18: PickCommit of AncestorOf{start, 0} returns the commit that PickCommit
\* of start returns, whenever that one resolves, and makes no ancestry query
\* and no call of cb beyond those of the resolution of start.
C18_OffsetZeroIsStart ==
    (/\ ret.op = "PickCommit"
     /\ walk.picker.kind = "Ancestor"
     /\ walk.picker.offset = 0) =>
        \A start \in {PickCommit(PickNow, walk.picker.start)} :
            start.err = NoErr =>
                /\ ret.err = NoErr
                /\ ret.out = start
                /\ walk.picker.start.kind \in {"Id", "BranchHead"} =>
                        ret.out.batches = 0 /\ ret.out.calls = <<>>

\* offset 0 from a commit picked by its id that has a parent, so that a walk
\* would have had an edge to call cb on
C18_Witness ==
    /\ ret.op = "PickCommit" /\ ret.err = NoErr
    /\ walk.picker.kind = "Ancestor" /\ walk.picker.offset = 0
    /\ walk.picker.start.kind = "Id"
    /\ ret.out.parentID # NoID
    /\ \E e \in ancestry : e[2] = ret.out.id
    /\ ret.out.batches = 0

RECURSIVE KthParent(_, _, _)
\* the commit k parent edges from id in the relation anc, NoID when the chain
\* of id has fewer than k edges
KthParent(anc, id, k) ==
    IF k = 0 THEN id
    ELSE IF k = 1
        THEN IF ParentsOf(anc, id) = {} THEN NoID ELSE CHOOSE p \in ParentsOf(anc, id) : TRUE
    ELSE CHOOSE a \in {KthParent(anc, half, k - (k \div 2)) :
                            half \in {KthParent(anc, id, k \div 2)}} : TRUE

InvalidAncestorOffset == "errors.Errorf:invalid offset for ancestor of commit"

\* C19: for an offset k >= 1 and a start picker that resolves, PickCommit of
\* AncestorOf{start, k} returns the commit k parent edges from the start
\* commit, and fails with the invalid-offset error exactly when the chain of
\* the start commit has fewer than k edges.  On the chain c1 <- c2 <- c3
\* offset 2 from c3 gives c1 and offset 3 fails.
C19_KthAncestor ==
    (/\ ret.op = "PickCommit"
     /\ walk.picker.kind = "Ancestor"
     /\ walk.picker.offset >= 1) =>
        \A start \in {PickCommit(PickNow, walk.picker.start)} :
            start.err = NoErr =>
                \A a \in {KthParent(ancestry, start.id, walk.picker.offset)} :
                    /\ a = NoID =>
                        ret.err = InvalidAncestorOffset
                    /\ a # NoID =>
                        /\ ret.err = NoErr
                        /\ ret.out.id = a
                        /\ ret.out.key = Pb(Now, a)
                    /\ ({<<1, 2>>, <<2, 3>>} \subseteq ancestry
                            /\ walk.picker.start = Id(DataRepo, "c3")) =>
                        /\ walk.picker.offset = 2 =>
                                ret.err = NoErr /\ ret.out.key = CommitKey(WalkCommit(1))
                        /\ walk.picker.offset = 3 => ret.err = InvalidAncestorOffset

\* an offset of one batch and one edge more, from the head of the long chain:
\* the walk took a second ancestry query and reached the root of the chain
C19_Witness ==
    /\ ret.op = "PickCommit" /\ ret.err = NoErr
    /\ walk.picker = AncestorOf(BranchHead(Master), MaxSearchDepth + 1)
    /\ ret.out.id = 1
    /\ ret.out.batches >= 2
    /\ Len(ret.out.calls) = MaxSearchDepth + 1

RECURSIVE EdgesToRoot(_, _, _, _)
\* the number of parent edges from id to the root of its chain, known to be
\* at least lo and less than hi
EdgesToRoot(anc, id, lo, hi) ==
    IF hi - lo <= 1 THEN lo
    ELSE CHOOSE n \in {IF KthParent(anc, id, mid) # NoID
                        THEN EdgesToRoot(anc, id, mid, hi)
                        ELSE EdgesToRoot(anc, id, lo, mid) :
                            mid \in {(lo + hi) \div 2}} : TRUE

\* C20: PickCommit of BranchRoot{branch, k} returns the commit on the parent
\* chain of the branch's head that lies k parent edges from the root of the
\* chain, for every k up to the number of edges between head and root (k = 0
\* the root, that number the head); a commit it returns for any k lies k
\* parent edges from the root.
C20_KFromRoot ==
    (/\ ret.op = "PickCommit"
     /\ walk.picker.kind = "BranchRoot"
     /\ walk.picker.branch = Master) =>
        \A n \in {EdgesToRoot(ancestry, walk.head, 0, Cardinality(commits))} :
            /\ walk.picker.offset <= n =>
                /\ ret.err = NoErr
                /\ ret.out.id = KthParent(ancestry, walk.head, n - walk.picker.offset)
            /\ walk.picker.offset = 0 =>
                ret.err = NoErr /\ ParentsOf(ancestry, ret.out.id) = {}
            /\ walk.picker.offset = n => ret.err = NoErr /\ ret.out.id = walk.head
            /\ ret.err = NoErr =>
                /\ KthParent(ancestry, ret.out.id, walk.picker.offset) # NoID
                /\ KthParent(ancestry, ret.out.id, walk.picker.offset + 1) = NoID

InvalidBranchRootOffset == "errors.Errorf:invalid offset from branch root"

\* C21: PickCommit of BranchRoot{branch, k} fails with the invalid-offset
\* error for every k greater than the number of parent edges between the
\* branch's head and the root of its chain, and returns no commit for such k.
C21_BeyondRootFails ==
    (/\ ret.op = "PickCommit"
     /\ walk.picker.kind = "BranchRoot"
     /\ walk.picker.branch = Master) =>
        \A n \in {EdgesToRoot(ancestry, walk.head, 0, Cardinality(commits))} :
            walk.picker.offset > n =>
                /\ ret.err = InvalidBranchRootOffset
                /\ ret.out.id = NoID
                /\ ret.out.key = NilKey

\* C22: PickCommit of a nil picker, of a picker without a variant and of a
\* picker of an unknown variant returns an error; no PickCommit call returns
\* a nil commit with a nil error; an error from resolving the nested start
\* picker, the branch picker or the repo picker is the error returned, and no
\* commit is returned with it.
C22_BadPickerIsError ==
    ret.op = "PickCommit" =>
        /\ walk.picker.kind \in {"nil", "unset", "unknown"} => ret.err # NoErr
        /\ ret.err = NoErr => ret.out.id # NoID /\ ret.out.key # NilKey
        /\ ret.err # NoErr => ret.out.id = NoID /\ ret.out.key = NilKey
        /\ walk.picker.kind = "Ancestor" =>
            \A start \in {PickCommit(PickNow, walk.picker.start)} :
                start.err # NoErr => ret.err = start.err
        /\ walk.picker.kind \in {"BranchHead", "BranchRoot"} =>
            \A branch \in {PickBranch(PickNow, walk.picker.branch)} :
                branch.err # NoErr => ret.err = branch.err
        /\ walk.picker.kind = "Id" =>
            \A repo \in {PickRepo(PickNow, walk.picker.repo)} :
                repo.err # NoErr => ret.err = repo.err

\* an ancestor picker whose start is a picker of an unknown variant: the error
\* of the nested call is the error of the call
C22_Witness ==
    /\ ret.op = "PickCommit"
    /\ walk.picker.kind = "Ancestor" /\ walk.picker.offset >= 1
    /\ walk.picker.start = UnknownPicker
    /\ ret.err = "errors.Errorf:commit picker is of an unknown type"
    /\ ret.out.id = NoID

\* the int_ids of a sequence of yields
Yielded(calls) == {calls[i] : i \in 1..Len(calls)}

\* C26: ListCommitTxByFilter and ForEachCommitTxByFilter, called in one
\* transaction with a filter and a callback that does not fail, yield exactly
\* the commits that satisfy every non-empty field of the filter (repo name,
\* repo type, project name, commit set id, branch name), each commit once,
\* also when the commits fill more than one page.
C26_FilterExact ==
    (/\ ret.op \in {"ListCommitTxByFilter", "ForEachCommitTxByFilter"}
     /\ walk.filter.ptr
     /\ walk.cb = NeverFails) =>
        LET F  == walk.filter
            ok == {r \in commits :
                    \E repo \in RepoRows :
                        /\ repo.id = r.repo_id
                        /\ (F.hasRepo /\ F.name # "") => repo.name = F.name
                        /\ (F.hasRepo /\ F.type # "") => repo.type = F.type
                        /\ (F.hasRepo /\ F.project # "") => repo.project = F.project
                        /\ F.id # "" => r.commit_set_id = F.id
                        /\ F.branch # "" =>
                            \E b \in BranchRows : b.id = r.branch_id /\ b.name = F.branch}
        IN  /\ ret.err = NoErr
            /\ Yielded(ret.out.calls) = RowIDs(ok)
            /\ Len(ret.out.calls) = Cardinality(ok)

\* C27: in one run of ForEachCommit no commit is yielded twice, whatever the
\* ordering and whatever other transactions commit between its page queries.
C27_NoRowTwice ==
    (walk.op = "ForEachCommit") =>
        Cardinality(Yielded(walk.calls)) = Len(walk.calls)

\* C28: the commits are yielded sorted by the (column, ASC|DESC) pairs passed,
\* commits equal on all of them in ascending int_id order, and without a
\* pair in ascending int_id order.
C28_SortedTiesByID ==
    (/\ ret.op \in {"ListCommitTxByFilter", "ForEachCommitTxByFilter"}
     /\ ret.err = NoErr) =>
        \A i \in 1..(Len(ret.out.calls) - 1) :
            Precedes(walk.orderBys, "up",
                     CHOOSE a \in commits : a.int_id = ret.out.calls[i],
                     CHOOSE b \in commits : b.int_id = ret.out.calls[i + 1])

\* the rows the snapshot has handed out
HandedOut(snapshot) ==
    IF snapshot.kind = "slice" THEN snapshot.idx ELSE snapshot.it.revision

\* C23: a watcher receives its first event only when its snapshot has
\* reached its end, onUpsert has then been called on every row the snapshot
\* handed out, and no call for a row of the snapshot follows a call for an
\* event.
C23_SnapshotBeforeDelta ==
    /\ walk.taken > 0 => walk.eos
    /\ walk.eos =>
        /\ Len(walk.log) >= HandedOut(walk.snapshot)
        /\ \A i \in 1..HandedOut(walk.snapshot) :
            walk.log[i].cb = "onUpsert" /\ walk.log[i].from = "snapshot"
    /\ \A i \in 1..(Len(walk.log) - 1) :
        walk.log[i].from = "event" => walk.log[i + 1].from = "event"

\* a change that was committed while the snapshot was handed out has been
\* turned into a callback after the rows of the snapshot
C23_Witness ==
    /\ walk.eos
    /\ HandedOut(walk.snapshot) >= 2
    /\ Len(walk.log) > HandedOut(walk.snapshot)
    /\ walk.log[Len(walk.log)].from = "event"
    /\ walk.snapshot.kind = "iterator"

\* the commits onUpsert has been called on
Upserted(log) == {log[i].id : i \in {j \in 1..Len(log) : log[j].cb = "onUpsert"}}

\* C24: when WatchCommits or WatchCommitsInRepo has read its snapshot to the
\* end, onUpsert has been called on every in-scope commit that had a row
\* when the snapshot was started and has one still, whatever other
\* transactions inserted and deleted between the page queries.
C24_AliveDelivered ==
    (/\ walk.op \in {"WatchCommits", "WatchCommitsInRepo"}
     /\ walk.eos) =>
        (walk.alive \cap RowIDs(commits)) \subseteq Upserted(walk.log)

\* the delta loop receives an event of one of the three types
Receives(type) ==
    /\ walk.pc = "delta"
    /\ walk'.taken = walk.taken + 1
    /\ Head(walk.events).Err = NoErr
    /\ Head(walk.events).Type = type

\* the step calls the handler cb on the id of the event at the head of the
\* channel, onUpsert with the commit that GetCommitInfo reads now, and
\* makes no other call
CallsHandler(cb) ==
    /\ walk'.events = Tail(walk.events)
    /\ Len(walk'.log) = Len(walk.log) + 1
    /\ SubSeq(walk'.log, 1, Len(walk.log)) = walk.log
    /\ LET call == walk'.log[Len(walk'.log)]
       IN  /\ call.cb = cb
           /\ call.from = "event"
           /\ call.id = Head(walk.events).Id
           /\ cb = "onUpsert" =>
                /\ call.commit = GetCommitInfo(Now, Head(walk.events).Id)
                /\ call.commit.err = NoErr

\* GetCommitInfo of the event at the head of the channel fails: its commit
\* has no row any more, or ctx is cancelled
LookupFails ==
    walk.cancelled \/ GetCommitInfo(Now, Head(walk.events).Id).err # NoErr

\* C25 as the claim has it: the delta loop takes the events in the order of
\* the channel and makes one call for each, onDelete(id) for a DELETE and
\* onUpsert of the commit freshly read for an INSERT or UPDATE.
C25_OneCallbackPerEvent ==
    [][/\ Receives(EventDelete) => CallsHandler("onDelete")
       /\ Receives(EventInsert) \/ Receives(EventUpdate) => CallsHandler("onUpsert")]_vars

\* C25, amended: as above for a DELETE and for an INSERT or UPDATE whose
\* commit GetCommitInfo finds; when the lookup fails the watcher makes no
\* call and returns the error of the lookup.
C25_OneCallbackPerEventFound ==
    [][/\ Receives(EventDelete) => CallsHandler("onDelete")
       /\ Receives(EventInsert) \/ Receives(EventUpdate) =>
            IF LookupFails
                THEN /\ walk'.log = walk.log
                     /\ walk'.pc = "returned"
                     /\ ret'.err = IF walk.cancelled THEN ContextCanceled
                                   ELSE GetCommitInfo(Now, Head(walk.events).Id).err
            ELSE CallsHandler("onUpsert")]_vars

\* a watcher has called onUpsert for an event and then onDelete for the next
C25_Witness ==
    /\ walk.taken = 2
    /\ Len(walk.log) >= 2
    /\ walk.log[Len(walk.log) - 1].from = "event"
    /\ walk.log[Len(walk.log) - 1].cb = "onUpsert"
    /\ walk.log[Len(walk.log)].cb = "onDelete"

\* C29: a call of onUpsert or onDelete that returned an error is the last
\* call the watcher made, and the watcher has returned that error.
C29_CallbackErrorAborts ==
    \A i \in 1..Len(walk.log) :
        walk.log[i].err # NoErr =>
            /\ i = Len(walk.log)
            /\ walk.pc = "returned"
            /\ ret.err = walk.log[i].err

\* onDelete failed in the delta loop with an event still in the channel
C29_Witness ==
    /\ walk.pc = "returned"
    /\ walk.log # <<>>
    /\ walk.log[Len(walk.log)].cb = "onDelete"
    /\ walk.log[Len(walk.log)].err = "onDelete:failed"
    /\ walk.events # <<>>

\* what a watcher that has returned from its delta loop returned, and why
ReturnedFromDelta ==
    \/ /\ ret.err = WatcherClosed
       /\ walk.closed /\ walk.events = <<>>
    \/ /\ ret.err = FailedEvent.Err
       /\ walk.last = FailedEvent
    \/ /\ ret.err = UnknownEventType
       /\ walk.taken > 0
       /\ walk.last.Type \notin {EventInsert, EventUpdate, EventDelete}
    \/ /\ IsCommitNotFound(ret.err)
       /\ walk.last.Type \in {EventInsert, EventUpdate}
       /\ walk.last.Id \notin RowIDs(commits)
    \/ /\ walk.log # <<>>
       /\ walk.log[Len(walk.log)].err # NoErr
       /\ ret.err = walk.log[Len(walk.log)].err
    \/ /\ ret.err = ContextCanceled
       /\ walk.cancelled

\* C30: a watcher that has returned has returned an error; from its delta
\* loop the error is that of the closed channel, of the event, of the
\* unknown event type, of the lookup, of the handler or of the cancelled
\* context, each only in its case; and the step in which the loop sees the
\* context cancelled calls no handler, as no step does after the return.
C30_NeverNil ==
    /\ [](walk.pc = "returned" =>
            /\ ret.err # NoErr
            /\ walk.eos => ReturnedFromDelta)
    /\ [][/\ (walk.pc = "delta" /\ walk'.pc = "returned" /\ walk'.taken = walk.taken) =>
                walk'.log = walk.log
          /\ walk.pc = "returned" => walk' = walk]_vars

\* the select took ctx.Done() while an event was waiting in the channel
C30_Witness ==
    /\ walk.pc = "returned"
    /\ walk.eos
    /\ ret.err = ContextCanceled
    /\ walk.taken = 0
    /\ walk.log # <<>>
    /\ walk.events # <<>>

\* the edges of anc with id at either end
Touching(anc, id) == {e \in anc : e[1] = id \/ e[2] = id}

\* C31: a DeleteCommit of X that succeeds removes the row of X and no other,
\* leaves no edge with X at an end, keeps every edge without X at an end
\* and adds only edges from the parent of X to the children of X, none at
\* all when X has no parent or no children; a DeleteCommit that fails
\* changes no row and no edge without the commit at an end either.
C31_DeleteFrame ==
    [][ret'.op = "DeleteCommit" =>
        /\ commits' \subseteq commits
        /\ \E x \in 1..MaxCommitId :
            /\ RowIDs(commits \ commits') \subseteq {x}
            /\ (ancestry \ ancestry') \subseteq Touching(ancestry, x)
            /\ (ancestry' \ ancestry) \subseteq
                    (ParentsOf(ancestry, x) \X ChildrenOf(ancestry, x))
        /\ ret'.err = NoErr =>
            /\ Cardinality(commits \ commits') = 1
            /\ \A x \in RowIDs(commits \ commits') :
                /\ Touching(ancestry', x) = {}
                /\ (ParentsOf(ancestry, x) = {} \/ ChildrenOf(ancestry, x) = {}) =>
                        ancestry' = ancestry \ Touching(ancestry, x)]_vars

\* a commit with children and no parent has been deleted, and an edge
\* between other commits is left
C31_Witness ==
    /\ ret.op = "DeleteCommit" /\ ret.err = NoErr
    /\ "children" \in ret.pre /\ "parent" \notin ret.pre
    /\ ancestry # {}

\* C32: forEachCommitAncestorUntilRoot, as pickCommitBranchRoot calls it from
\* the head of a branch with a callback that does not break, calls cb once
\* on each edge of the parent chain of the head, the edge of the head first
\* and each edge after the edge of its child, up to the edge of the root; it
\* makes one ancestry query for every MaxSearchDepth edges and one more,
\* which returns no row; from a head without a parent cb is never called.
C32_EachEdgeOnce ==
    (/\ ret.op = "PickCommit"
     /\ walk.picker.kind = "BranchRoot"
     /\ ret.err = NoErr) =>
        LET calls == ret.out.calls
            n     == Len(calls)
        IN  /\ n = EdgesToRoot(ancestry, walk.head, 0, Cardinality(commits))
            /\ \A i \in 1..n :
                /\ calls[i] \in ancestry
                /\ calls[i][2] = IF i = 1 THEN walk.head ELSE calls[i - 1][1]
            /\ ParentsOf(ancestry, IF n = 0 THEN walk.head ELSE calls[n][1]) = {}
            /\ ret.out.batches = ((n + MaxSearchDepth - 1) \div MaxSearchDepth) + 1

\* the walk from the head of the long chain: three ancestry queries, the
\* second from the ancestor that the first reported last
C32_Witness ==
    /\ ret.op = "PickCommit" /\ ret.err = NoErr
    /\ walk.picker = BranchRoot(Master, 0)
    /\ Len(ret.out.calls) = MaxSearchDepth + 1
    /\ ret.out.calls[MaxSearchDepth + 1] = <<1, 2>>
    /\ ret.out.batches = 3

\* the events that the step from commits to commits' of another transaction
\* owes a watcher: INSERT of a new row, DELETE of a row that is gone, UPDATE
\* of a row that differs, when the channel of the watcher is notified of it
Owed ==
    {Event(EventInsert, r.int_id) :
        r \in {q \in commits' : q.int_id \notin RowIDs(commits)
                                /\ Hears(walk.op, walk.arg, q)}}
    \cup {Event(EventDelete, r.int_id) :
            r \in {q \in commits : q.int_id \notin RowIDs(commits')
                                   /\ Hears(walk.op, walk.arg, q)}}
    \cup {Event(EventUpdate, r.int_id) :
            r \in {q \in commits' : q.int_id \in RowIDs(commits) /\ q \notin commits
                                    /\ Hears(walk.op, walk.arg, q)}}

\* C33: from the first read of its snapshot to its return, while its channel
\* is open, every insert, update and delete of a commit of its scope that
\* another transaction commits puts its event at the end of the channel of
\* the watcher, behind the events that wait there; nothing else changes the
\* events that wait but the watcher taking the first, an event of the
\* listener itself, and an update that sets a row to what it was.
C33_NoChangeMissed ==
    [][(walk.asked /\ walk.pc # "returned" /\ ~walk.closed) =>
        /\ commits' # commits =>
            /\ Cardinality(Owed) <= 1
            /\ \A e \in Owed : walk'.events = Append(walk.events, e)
            /\ Owed = {} => walk'.events = walk.events
        /\ commits' = commits =>
            \/ walk'.events = walk.events
            \/ /\ walk.events # <<>>
               /\ walk'.events = Tail(walk.events)
               /\ walk'.taken = walk.taken + 1
            \/ \E e \in {FailedEvent, UnknownEvent} :
                    walk'.events = Append(walk.events, e)
            \/ \E r \in commits :
                    walk'.events = Append(walk.events, Event(EventUpdate, r.int_id))]_vars

\* a change committed between the first read of the snapshot and its end
\* waits in the channel
C33_Witness ==
    /\ walk.asked /\ ~walk.eos
    /\ walk.pc = "snapshot"
    /\ walk.op = "WatchCommitsInRepo"
    /\ walk.log # <<>>
    /\ walk.events # <<>>
    /\ walk.events[1].Type = EventUpdate

\* C34: a watcher that has returned has released its subscription, whatever
\* made it return, and a watcher that runs holds it.
C34_SubscriptionReleased ==
    /\ walk.pc = "returned" => ~walk.subscribed
    /\ walk.pc # "returned" => walk.subscribed

\* WatchCommit of a commit without a row has returned from its lookup,
\* before any snapshot
C34_Witness ==
    /\ walk.pc = "returned"
    /\ walk.op = "WatchCommit"
    /\ IsCommitNotFound(ret.err)
    /\ ~walk.asked
    /\ ~walk.subscribed

\* the lookup for an INSERT or UPDATE event finds no row
LookupFindsNoRow ==
    /\ Receives(EventInsert) \/ Receives(EventUpdate)
    /\ Head(walk.events).Id \notin RowIDs(commits)
    /\ ~walk.cancelled

\* C35: when the delta loop receives an INSERT or UPDATE event of a commit
\* that has no row any more, the watcher returns the CommitNotFound of
\* GetCommitInfo and calls no handler; the events behind it stay in the
\* channel, and the watcher that has returned takes none of them.
C35_DeletedBeforeLookup ==
    [][/\ LookupFindsNoRow =>
            /\ walk'.pc = "returned"
            /\ IsCommitNotFound(ret'.err)
            /\ ret'.err = GetCommitInfo(Now, Head(walk.events).Id).err
            /\ walk'.log = walk.log
            /\ walk'.events = Tail(walk.events)
       /\ walk.pc = "returned" =>
            /\ walk'.log = walk.log
            /\ walk'.events = walk.events
            /\ walk'.taken = walk.taken]_vars

\* the watcher has returned CommitNotFound for the INSERT of a commit whose
\* DELETE is left in the channel
C35_Witness ==
    /\ walk.pc = "returned"
    /\ walk.eos
    /\ IsCommitNotFound(ret.err)
    /\ walk.last.Type = EventInsert
    /\ walk.events = <<Event(EventDelete, walk.last.Id)>>
    /\ \A i \in 1..Len(walk.log) : walk.log[i].from = "snapshot"

\* the call returned nil and left both tables as they were
SucceedsUnchanged(r) ==
    /\ r.err = NoErr
    /\ ~r.aborted
    /\ r.db.ancestry = ancestry
    /\ r.db.commits = commits

\* C36: in every state that create, link and delete calls reach, for every
\* commit c with a parent p1 and every other commit p2 with a row,
\* CreateCommitParent(p2, c) and CreateCommitAncestries(p2, [c]) return nil
\* and leave the tables as they are, and CreateCommit of a new commit with
\* ChildCommits = [c] returns nil and adds its row and no edge.
C36_SecondParentIgnored ==
    \A c \in RowIDs(commits) :
        \A p1 \in ParentsOf(ancestry, c) :
            /\ \A p2 \in DataCommits :
                (HasRow(commits, p2) /\ SelectIntID(Now, CommitKey(p2)) # p1) =>
                    SucceedsUnchanged(CreateCommitParent(Now, p2, c))
            /\ \A p2 \in RowIDs(commits) \ {p1} :
                SucceedsUnchanged(CreateCommitAncestries(Now, p2, {c}))
            /\ \A x \in DataCommits, k \in DataCommits :
                (~HasRow(commits, x) /\ SelectIntID(Now, CommitKey(k)) = c) =>
                    \A r \in {CreateCommit(Now, CommitInfo(x, "USER", NilCommit, {k}),
                                           NoSkip)} :
                        /\ r.err = NoErr
                        /\ ~r.aborted
                        /\ r.db.ancestry = ancestry
                        /\ RowIDs(r.db.commits) = RowIDs(commits) \cup {nextId}

\* CreateCommitParent was called for a child that has another parent, and
\* has returned nil
C36_Witness ==
    /\ ret.op = "CreateCommitParent" /\ ret.err = NoErr
    /\ "taken" \in ret.pre
    /\ \E e \in ancestry : e[1] # e[2]


\* C37: in every ancestry relation that create, link and delete calls reach,
\* forEachCommitAncestorUntilRoot ends from every start commit, with a
\* callback that never breaks (the one of pickCommitBranchRoot) and with one
\* that breaks at any call up to MaxCommitId + 1 (the one of
\* pickCommitAncestorOf)
C37_WalkTerminates ==
    \A start \in RowIDs(commits) :
        /\ ~forEachCommitAncestorUntilRoot(Now, start, NeverFails).diverged
        /\ \A n \in 1..(MaxCommitId + 1) :
             ~forEachCommitAncestorUntilRoot(Now, start, Callback(n, "ErrBreak")).diverged


\* the ways to split the offset k in two that the check goes through: all of
\* them for the offsets of the short chains, and for the long chain those
\* with a part of no edge, one edge, one batch or all edges
Splits(k) ==
    IF k <= MaxChain + 1 THEN 0..k
    ELSE {a \in {0, 1, k - MaxSearchDepth, MaxSearchDepth, k - 1, k} : a >= 0 /\ a <= k}

\* two results of PickCommit that are the same error or the same commit
SamePick(p, q) ==
    /\ p.err = q.err
    /\ p.id = q.id
    /\ p.key = q.key
    /\ p.parent = q.parent
    /\ p.children = q.children

\* C38: on the acyclic relations, for a start picker X that does not walk and
\* offsets a and b, PickCommit of AncestorOf{AncestorOf{X, a}, b} returns what
\* PickCommit of AncestorOf{X, a + b} returned: the same commit, or the same
\* error, the invalid-offset error among them.
C38_AncestorsCompose ==
    (/\ ret.op = "PickCommit"
     /\ walk.picker.kind = "Ancestor"
     /\ walk.picker.start \in StartPickers \cup {BranchHead(Master)}) =>
        \A a \in Splits(walk.picker.offset) :
            \A nested \in {PickCommit(PickNow,
                                      AncestorOf(AncestorOf(walk.picker.start, a),
                                                 walk.picker.offset - a))} :
                /\ SamePick(nested, ret.out)
                /\ (nested.err = InvalidAncestorOffset) = (ret.err = InvalidAncestorOffset)

\* from the head of the long chain the offset of one batch and one edge more
\* gave the root, which is also one edge from the commit one batch from the
\* head
C38_Witness ==
    /\ ret.op = "PickCommit" /\ ret.err = NoErr
    /\ walk.picker = AncestorOf(BranchHead(Master), MaxSearchDepth + 1)
    /\ ret.out.id = 1
    /\ PickCommit(PickNow, AncestorOf(AncestorOf(BranchHead(Master), MaxSearchDepth), 1)).id = 1


---------------------------------------------------------------------------
(* The sampling log core (internal/log/core.go): a sampler shared by       *)
(* goroutines that call Check, each call a sequence of atomic accesses to  *)
(* one counter                                                             *)

countersPerLevel == 4096

\* zapcore's levels; Invalid is one more than Fatal
Level ==
    [Debug |-> 0 - 1, Info |-> 0, Warn |-> 1, Error |-> 2, DPanic |-> 3, Panic |-> 4,
     Fatal |-> 5, Invalid |-> 6]

minLevel == Level.Debug

maxLevel == Level.Fatal

RECURSIVE Xor(_, _, _)
\* a ^ b on the lowest `bits` bits
Xor(a, b, bits) ==
    IF bits = 0 THEN 0
    ELSE (((a % 2) + (b % 2)) % 2) + 2 * Xor(a \div 2, b \div 2, bits - 1)

RECURSIVE fnv32aFrom(_, _, _)
\* the loop of fnv32a from byte i of s on, hash being the hash so far
fnv32aFrom(s, i, hash) ==
    IF i > Len(s) THEN hash
    ELSE fnv32aFrom(s, i + 1, (Xor(hash, s[i], 12) * 403) % countersPerLevel)

\* fnv32a(s) % _countersPerLevel for the string of the bytes s.  The lowest 12
\* bits of hash ^ byte and of hash * prime32 depend on the lowest 12 bits of
\* hash only, so the loop runs on them: 3525 is offset32 and 403 is prime32
\* modulo 4096.
fnv32a(s) == fnv32aFrom(s, 1, 3525)

\* counters.get: the indices of the counter
get(lvl, key) == <<lvl - minLevel, fnv32a(key) % countersPerLevel>>

Entry(lvl, message, time) == [Level |-> lvl, Message |-> message, Time |-> time]

LogDropped == "LogDropped"

LogSampled == "LogSampled"

\* the messages "ds" and "n1", which share a counter
Messages == {<<100, 115>>, <<110, 49>>}

\* a level the core does not enable, one it enables, and one past _maxLevel
EntryLevels == {Level.Debug, Level.Info, Level.Invalid}

\* the counters that the entries of the model use
CounterKeys == {get(lvl, m) : lvl \in {l \in EntryLevels : l >= minLevel /\ l <= maxLevel},
                              m \in Messages}

\* the wrapped core: it enables the levels from core.level on, and its Check
\* adds it to the checked entry of every entry it enables
Enabled(core, lvl) == lvl >= core.level

newCounters == [k \in CounterKeys |-> [resetAt |-> 0, counter |-> 0]]

\* newSamplerWithOptions without options: the hook is the one the module
\* records calls of.  first and thereafter are not negative, so that the
\* conversions to uint64 keep them.
newSamplerWithOptions(core, samplingEnabled, tick, first, thereafter) ==
    [Core |-> core, tick |-> tick, first |-> first, thereafter |-> thereafter,
     samplingEnabled |-> samplingEnabled]

MaxEntries == 3

MaxTime == 2

\* the entries that Check is called with: both messages at the level that is
\* sampled, one at the other levels
Entries ==
    {<<lvl, message>> \in EntryLevels \X Messages :
        lvl = Level.Info \/ message = <<100, 115>>}

Goroutines == {1, 2}

NotCalling == [pc |-> "idle", ent |-> Entry(0, <<>>, 0), resetAfter |-> 0]

\* a Check call that returned: its entry, the value of IncCheckReset (0 when
\* it was not called), whether the entry was handed to the wrapped core, and
\* the decisions the hook was called with
Decided(ent, n, passed, hooks) == [ent |-> ent, n |-> n, passed |-> passed, hooks |-> hooks]

SamplerCall(s) ==
    /\ commits = {}
    /\ ancestry = {}
    /\ nextId = 1
    /\ ret = Call("", NoErr, {}, NoID)
    /\ created = NoneCreated
    /\ tx = NoTx
    /\ walk = [pc |-> "sampler", s |-> s, counts |-> newCounters, now |-> 0,
               callers |-> [g \in Goroutines |-> NotCalling], done |-> <<>>]

InitSample ==
    \E samplingEnabled \in BOOLEAN, first \in {1, 2}, thereafter \in {0, 2} :
        /\ samplingEnabled \/ (first = 1 /\ thereafter = 0)
        /\ SamplerCall(newSamplerWithOptions([level |-> Level.Info], samplingEnabled, 2,
                                             first, thereafter))

Sampling == walk # NoWalk /\ walk.pc = "sampler"

\* the calls of Check so far, returned or not
Calls == Len(walk.done) + Cardinality({g \in Goroutines : walk.callers[g].pc # "idle"})

\* the return of the Check call of goroutine g
CheckReturns(g, r) ==
    walk' = [walk EXCEPT !.callers[g] = NotCalling, !.done = Append(@, r)]

\* the end of sampler.Check once IncCheckReset returned n
Sampled(g, n, counts) ==
    LET s   == walk.s
        ent == walk.callers[g].ent
    IN  IF n > s.first /\ (s.thereafter = 0 \/ (n - s.first) % s.thereafter # 0)
        THEN walk' = [walk EXCEPT !.counts = counts, !.callers[g] = NotCalling,
                                  !.done = Append(@, Decided(ent, n, FALSE, <<LogDropped>>))]
        ELSE walk' = [walk EXCEPT !.counts = counts, !.callers[g] = NotCalling,
                                  !.done = Append(@, Decided(ent, n, TRUE, <<LogSampled>>))]

\* sampler.Check up to resetAt.Load of IncCheckReset, and to its return for an
\* entry that is not sampled.  Among the goroutines that are not in a call the
\* one with the lowest number makes the next.
CheckCall(g) ==
    /\ Sampling
    /\ walk.callers[g].pc = "idle"
    /\ \A h \in Goroutines : h < g => walk.callers[h].pc # "idle"
    /\ Calls < MaxEntries
    /\ \E e \in Entries :
        LET lvl     == e[1]
            message == e[2]
            ent     == Entry(lvl, message, walk.now)
            s   == walk.s
        IN  IF ~Enabled(s.Core, lvl) THEN CheckReturns(g, Decided(ent, 0, FALSE, <<>>))
            ELSE IF ~(s.samplingEnabled /\ lvl >= minLevel /\ lvl <= maxLevel)
                THEN CheckReturns(g, Decided(ent, 0, TRUE, <<>>))
            ELSE walk' = [walk EXCEPT !.callers[g] =
                            [pc |-> "loaded", ent |-> ent,
                             resetAfter |-> walk.counts[get(lvl, message)].resetAt]]
    /\ UNCHANGED <<commits, ancestry, nextId, ret, created, tx>>

\* c.counter.Inc() of IncCheckReset, in the window or after a lost CAS
CounterInc(g) ==
    /\ Sampling
    /\ LET c == walk.callers[g]
           k == get(c.ent.Level, c.ent.Message)
       IN  /\ \/ c.pc = "loaded" /\ c.resetAfter > c.ent.Time
              \/ c.pc = "raced"
           /\ Sampled(g, walk.counts[k].counter + 1,
                      [walk.counts EXCEPT ![k].counter = @ + 1])
    /\ UNCHANGED <<commits, ancestry, nextId, ret, created, tx>>

\* c.counter.Store(1)
CounterStore(g) ==
    /\ Sampling
    /\ LET c == walk.callers[g]
           k == get(c.ent.Level, c.ent.Message)
       IN  /\ c.pc = "loaded" /\ ~(c.resetAfter > c.ent.Time)
           /\ walk' = [walk EXCEPT !.counts[k].counter = 1, !.callers[g].pc = "stored"]
    /\ UNCHANGED <<commits, ancestry, nextId, ret, created, tx>>

\* c.resetAt.CAS(resetAfter, newResetAfter)
ResetAtCAS(g) ==
    /\ Sampling
    /\ LET c == walk.callers[g]
           k == get(c.ent.Level, c.ent.Message)
       IN  /\ c.pc = "stored"
           /\ IF walk.counts[k].resetAt = c.resetAfter
              THEN Sampled(g, 1, [walk.counts EXCEPT ![k].resetAt = c.ent.Time + walk.s.tick])
              ELSE walk' = [walk EXCEPT !.callers[g].pc = "raced"]
    /\ UNCHANGED <<commits, ancestry, nextId, ret, created, tx>>

\* time passes
ClockAdvances ==
    /\ Sampling
    /\ walk.now < MaxTime
    /\ walk' = [walk EXCEPT !.now = @ + 1]
    /\ UNCHANGED <<commits, ancestry, nextId, ret, created, tx>>

NextSample ==
    \/ \E g \in Goroutines : CheckCall(g)
    \/ \E g \in Goroutines : CounterInc(g)
    \/ \E g \in Goroutines : CounterStore(g)
    \/ \E g \in Goroutines : ResetAtCAS(g)
    \/ ClockAdvances

SpecSample == InitSample /\ [][NextSample]_vars


---------------------------------------------------------------------------
(* The reader of pg_dump files (server/pkg/sql/sql.go).  Bytes are strings *)
(* of one character, a stream and a line are sequences of bytes.           *)

EOF == "io.EOF"

NoRowInserts == "fmt.Errorf:file does not contain row inserts"

\* bufio.Reader.ReadBytes(delim) on the unread bytes rd: the bytes up to and
\* with the first delim, or all of them and io.EOF when there is none
ReadBytes(rd, delim) ==
    LET at == {i \in 1..Len(rd) : rd[i] = delim}
    IN  IF at = {} THEN [b |-> rd, rd |-> <<>>, err |-> EOF]
        ELSE LET i == CHOOSE j \in at : \A k \in at : j <= k
             IN  [b |-> SubSeq(rd, 1, i), rd |-> SubSeq(rd, i + 1, Len(rd)), err |-> NoErr]

\* strings.HasPrefix
HasPrefix(b, prefix) == Len(b) >= Len(prefix) /\ SubSeq(b, 1, Len(prefix)) = prefix

\* "\\."
endLine == <<"\\", ".">>

COPY == <<"C", "O", "P", "Y">>

NewPGDumpReader(rd) == [Header |-> <<>>, Footer |-> <<>>, rd |-> rd]

RECURSIVE readHeader(_)
\* the loop that reads the header, up to the first line that starts with COPY
readHeader(r) ==
    LET x == ReadBytes(r.rd, "\n")
        q == [r EXCEPT !.rd = x.rd]
    IN  IF x.err # NoErr THEN [r |-> q, err |-> NoRowInserts]
        ELSE IF HasPrefix(x.b, COPY) THEN [r |-> [q EXCEPT !.Header = @ \o x.b], err |-> NoErr]
        ELSE readHeader([q EXCEPT !.Header = @ \o x.b])

RECURSIVE readFooter(_)
\* readFooter: the loop ends at the first error of ReadBytes and returns it
readFooter(r) ==
    LET x == ReadBytes(r.rd, "\n")
        q == [r EXCEPT !.rd = x.rd, !.Footer = @ \o x.b]
    IN  IF x.err # NoErr THEN [r |-> q, err |-> x.err]
        ELSE readFooter(q)

\* what ReadRows returns, with the reader after the call
RowsRead(r, rowsDump, rowsRead, err) ==
    [r |-> r, rowsDump |-> rowsDump, rowsRead |-> rowsRead, err |-> err]

RECURSIVE readRowsLoop(_, _, _, _)
\* the loop over the rows from rowsRead on, and the return after it
readRowsLoop(r, count, rowsRead, rowsDump) ==
    LET x      == ReadBytes(r.rd, "\n")
        q      == [r EXCEPT !.rd = x.rd]
        footer == readFooter(r)
        broken == readFooter(q)
    IN  IF ~(rowsRead < count) THEN RowsRead(footer.r, rowsDump, rowsRead, footer.err)
        ELSE IF x.b = endLine
            THEN IF count = 1 THEN RowsRead(broken.r, <<>>, 0, EOF)
                 ELSE RowsRead(broken.r, rowsDump, rowsRead, broken.err)
        ELSE readRowsLoop(q, count, rowsRead + 1, rowsDump \o x.b)

\* pgDumpReader.ReadRows
ReadRows(r, count) ==
    LET h == IF Len(r.Header) = 0 THEN readHeader(r) ELSE [r |-> r, err |-> NoErr]
    IN  IF h.err # NoErr THEN RowsRead(h.r, <<>>, 0, h.err)
        ELSE readRowsLoop(h.r, count, 0, <<>>)

RECURSIVE Concat(_)
\* the lines of a sequence one after the other
Concat(lines) == IF lines = <<>> THEN <<>> ELSE Head(lines) \o Concat(Tail(lines))

MaxDataRows == 3

MaxReads == 3

MaxCount == 3

\* the rows of a table: a, b, c, ...
DataRow(i) == <<<<"a">>, <<"b">>, <<"c">>, <<"d">>>>[i] \o <<"\n">>

\* A pg_dump file: lines before the COPY line, the COPY line, the rows, the
\* line of the terminator and the lines after it; fields say which of them the
\* file has.  The last line of a file may lack its newline.
DumpFile(preamble, header, rows, terminator, footer) ==
    [preamble |-> preamble, header |-> header, rows |-> rows, terminator |-> terminator,
     footer |-> footer]

Bytes(file) ==
    Concat(file.preamble) \o file.header \o Concat(file.rows) \o file.terminator \o file.footer

DumpFiles ==
    {DumpFile(preamble, header, [i \in 1..n |-> DataRow(i)], terminator, footer) :
        preamble \in {<<>>, <<<<"-", "\n">>>>},
        header \in {<<>>, COPY \o <<"\n">>},
        n \in 0..MaxDataRows,
        terminator \in {<<>>, endLine, endLine \o <<"\n">>},
        footer \in {<<>>, <<"f", "\n">>}}

\* a terminator without its newline ends the file
WellFormed(file) == file.terminator = endLine => file.footer = <<>>

DumpCall(file) ==
    /\ commits = {}
    /\ ancestry = {}
    /\ nextId = 1
    /\ ret = Call("", NoErr, {}, NoID)
    /\ created = NoneCreated
    /\ tx = NoTx
    /\ walk = [pc |-> "dump", file |-> file, r |-> NewPGDumpReader(Bytes(file)),
               reads |-> <<>>]

InitDump == \E file \in DumpFiles : WellFormed(file) /\ DumpCall(file)

\* r.ReadRows(count), the call and what it returned kept in walk.reads
DoReadRows ==
    /\ walk # NoWalk
    /\ walk.pc = "dump"
    /\ Len(walk.reads) < MaxReads
    /\ \E count \in 1..MaxCount :
        \E x \in {ReadRows(walk.r, count)} :
            walk' = [walk EXCEPT !.r = x.r,
                                 !.reads = Append(@, [count |-> count, rowsDump |-> x.rowsDump,
                                                      rowsRead |-> x.rowsRead, err |-> x.err])]
    /\ UNCHANGED <<commits, ancestry, nextId, ret, created, tx>>

NextDump == DoReadRows

SpecDump == InitDump /\ [][NextDump]_vars


\* the rule of the sampler: the k-th entry of a tick is passed on when it is
\* among the first `first`, or the thereafter-th, 2*thereafter-th, ... after
\* them
PassesKth(s, k) ==
    k <= s.first \/ (s.thereafter > 0 /\ (k - s.first) % s.thereafter = 0)

\* C39: with sampling enabled, the entries of one level that the core enables
\* and of one message whose times are less than a tick after the first of
\* them are passed on by the rule, in the order in which their Check calls
\* returned, and the hook is called once for each with the decision;  with
\* sampling disabled every entry of an enabled level is passed on and the
\* hook is not called.
C39_FirstThenEveryNth ==
    Sampling =>
        LET s == walk.s
        IN  /\ s.samplingEnabled =>
                \A lvl \in {l \in EntryLevels : Enabled(s.Core, l) /\ l \in minLevel..maxLevel},
                   message \in Messages :
                    LET Of(d)     == d.ent.Level = lvl /\ d.ent.Message = message
                        E         == SelectSeq(walk.done, Of)
                        InTick(d) == d.ent.Time < E[1].ent.Time + s.tick
                        W         == SelectSeq(E, InTick)
                    IN  \A k \in 1..Len(W) :
                            /\ W[k].passed = PassesKth(s, k)
                            /\ W[k].hooks = IF W[k].passed THEN <<LogSampled>>
                                            ELSE <<LogDropped>>
            /\ ~s.samplingEnabled =>
                \A i \in 1..Len(walk.done) :
                    Enabled(s.Core, walk.done[i].ent.Level) =>
                        walk.done[i].passed /\ walk.done[i].hooks = <<>>


\* the rows that the reads so far returned, one after the other
RowsReturned == Concat([i \in 1..Len(walk.reads) |-> walk.reads[i].rowsDump])

\* the number of rows in rowsDump
RowsIn(rowsDump) == Cardinality({j \in 1..Len(rowsDump) : rowsDump[j] = "\n"})

\* each call returns at most count rows and rowsRead is their number
CountsRows ==
    \A i \in 1..Len(walk.reads) :
        /\ walk.reads[i].rowsRead <= walk.reads[i].count
        /\ walk.reads[i].rowsRead = RowsIn(walk.reads[i].rowsDump)

\* the calls return the rows of the file in order
RowsInOrder ==
    /\ Len(RowsReturned) <= Len(Concat(walk.file.rows))
    /\ RowsReturned = SubSeq(Concat(walk.file.rows), 1, Len(RowsReturned))

\* the call that has just returned io.EOF returned the last of the rows, and
\* Header and Footer are set
EOFAtEnd ==
    (walk.reads # <<>> /\ walk.reads[Len(walk.reads)].err = EOF) =>
        /\ RowsReturned = Concat(walk.file.rows)
        /\ walk.r.Header # <<>>
        /\ walk.r.Footer # <<>>

\* no call on a file without the COPY line or without lines after the
\* terminator returns nil or io.EOF
MissingPartFails ==
    (walk.file.header = <<>> \/ walk.file.footer = <<>>) =>
        \A i \in 1..Len(walk.reads) : walk.reads[i].err \notin {NoErr, EOF}

\* C40: successive ReadRows(count) calls return the rows between the COPY
\* line and the terminator in order, at most count per call, rowsRead being
\* the number of rows in rowsDump; a call returns io.EOF only once all rows
\* have been returned, Header and Footer being set then; on a file without the
\* COPY line or without a footer the calls return another error.
C40_RowsThenEOF ==
    (walk # NoWalk /\ walk.pc = "dump") =>
        /\ CountsRows
        /\ (walk.file.header # <<>> /\ walk.file.terminator # <<>>) => RowsInOrder
        /\ EOFAtEnd
        /\ MissingPartFails

====
